---- MODULE Spec2Model ----
(***************************************************************************)
(* Token-bucket rate limiter: the bucket algorithm (tokenBucket.js), the   *)
(* in-memory store (memoryStore.js) and the Redis store (redisStore.js,    *)
(* with its Lua check-and-consume script).                                 *)
(*                                                                         *)
(* Numbers.  Time is in milliseconds, as Date.now() gives it.  Token       *)
(* counts are real numbers in the program; here a count is an integer      *)
(* number of token units, TokenUnit units to the token, and a refill rate  *)
(* is a number of units per millisecond (PerSecond(1) is one token per     *)
(* second).  With the rates used every product elapsed * rate is a whole   *)
(* number of units, so that arithmetic is the program's real arithmetic,   *)
(* exact.  The rounding of IEEE doubles is modelled where it decides, in   *)
(* the last section, on refills that are split by an observation.          *)
(***************************************************************************)
EXTENDS Integers, Sequences, FiniteSets, TLC

\* ------------------------------------------------------------- bounds
MaxTicks == 1        \* times the clock is advanced
MaxJitter == 1       \* calls during which Date.now() moves on
BurstCap == 3        \* calls counted in one burst of same-instant checks

\* ---------------------------------------------------------- the units
TokenUnit == 10 * 1000 * 1000
PerSecond(n) == n * (TokenUnit \div 1000)       \* n tokens per second
Tokens(n) == n * TokenUnit

\* a window that would be a minute
inactiveThresholdShort == 60 * 1000

\* the inactivity window of both stores, in ms: memoryStore.js:102, and
\* EXPIRE key 3600 (seconds) in the Lua script
inactiveThreshold == 60 * 60 * 1000
\* a time to live that would be five minutes
ExpireSecondsShort == 5 * 60

ExpireSeconds == 3600

\* ---------------------------------------------------- the inputs drawn
Ids == {"a"}
\* rate-limit rules: an integer capacity at a rate whose retry time needs the
\* ceiling (2 tokens, 3 per second); and a fractional capacity, which a request
\* for 2 tokens exceeds, at a rate that takes longer than the inactivity
\* window to refill the bucket (1.5 tokens, 0.0001 per second)
Rules == { [capacity |-> Tokens(2), refillRate |-> PerSecond(3)],
           [capacity |-> Tokens(1) + TokenUnit \div 2, refillRate |-> 1] }
TokensRequested == {1, 2}
\* the clock between two calls: half a second, or an idle hour and a ms
ShortSteps == {500}
IdleStep == inactiveThreshold + 1
\* Date.now() read twice in one synchronous call: the same or the next ms
Jitter == {0, 1}

Min(a, b) == IF a <= b THEN a ELSE b
Max(a, b) == IF a >= b THEN a ELSE b
Floor(units) == units \div TokenUnit            \* Math.floor of a token count
CeilDiv(a, b) == -((-a) \div b)                 \* Math.ceil(a / b), b > 0

\* elapsed * rate.  TLC's integers are 32 bits wide; a product beyond
\* Saturate is far beyond every capacity and is cut at Saturate, which leaves
\* min(capacity, tokens + product) what the program computes.
Saturate == 1000 * 1000 * 1000
Times(elapsed, rate) ==
    IF elapsed > Saturate \div rate THEN Saturate
    ELSE IF elapsed < -(Saturate \div rate) THEN -Saturate
    ELSE elapsed * rate

VARIABLES
    store,        \* which store the limiter is configured with
    clock,        \* Date.now(), ms
    nticks, njitter,   \* the bounds' counters
    rule,         \* the {capacity, refillRate} the caller passes to checkLimit
    buckets,      \* MemoryStore.buckets: Map identifier -> TokenBucket
    redis,        \* the Redis keyspace: key -> hash {tokens, last_refill} and its expiry
    client,       \* RedisStore.client of each server process: null or a client
    isConnected,  \* RedisStore.isConnected of each server process
    pc,           \* where each caller's asynchronous call stands
    arg,          \* the call a caller has in flight
    ret,          \* the last call that returned (or threw), with what it returned
    burst,        \* per identifier: the run of one-token checks at one instant
    credit,       \* per identifier: tokens admitted beyond the refill since
    serial,       \* per identifier: the bucket of a one-at-a-time TokenBucket
    mw,           \* what the middleware did with the last request it handled
    checked,      \* identifiers checked since they were last reset or evicted
    options,      \* RedisStore.options: the keyPrefix the store was created with
    quits         \* per process: QUIT commands sent on the connection of its client

memVars == <<buckets>>
redisVars == <<redis, client, isConnected, pc, arg, serial>>
vars == <<store, clock, nticks, njitter, rule, buckets, redis, client, isConnected,
          pc, arg, ret, burst, credit, serial, mw, checked, options, quits>>

\* ------------------------------------------------------- tokenBucket.js
\* a bucket that would start empty
TokenBucketEmpty(capacity, refillRate, now) ==
    [capacity |-> capacity, refillRate |-> refillRate,
     tokens |-> 0, lastRefill |-> now]

TokenBucket(capacity, refillRate, now) ==
    [capacity |-> capacity, refillRate |-> refillRate,
     tokens |-> capacity, lastRefill |-> now]

\* a refill that would not stop at the capacity
refillUncapped(b, now) ==
    [b EXCEPT !.tokens = b.tokens + Times(now - b.lastRefill, b.refillRate),
              !.lastRefill = now]

refill(b, now) ==
    LET timePassed == now - b.lastRefill
        tokensToAdd == Times(timePassed, b.refillRate)
    IN [b EXCEPT !.tokens = Min(b.capacity, b.tokens + tokensToAdd),
                 !.lastRefill = now]

\* a consume that would admit without taking the tokens
consumeFree(b, tokens, now) ==
    LET r == [b EXCEPT !.tokens = Min(b.capacity, b.tokens
                                        + Times(now - b.lastRefill, b.refillRate)),
                       !.lastRefill = now]
    IN [bucket |-> r, ok |-> r.tokens >= Tokens(tokens), seen |-> r.tokens]

\* consume(tokens): the bucket after, the value returned, and the tokens the
\* admission test saw
consume(b, tokens, now) ==
    LET r == refill(b, now)
    IN IF r.tokens >= Tokens(tokens)
       THEN [bucket |-> [r EXCEPT !.tokens = r.tokens - Tokens(tokens)],
             ok |-> TRUE, seen |-> r.tokens]
       ELSE [bucket |-> r, ok |-> FALSE, seen |-> r.tokens]

\* getState(): the bucket after its refill, and the tokens field returned
getState(b, now) ==
    LET r == refill(b, now)
    IN [bucket |-> r, tokens |-> Floor(r.tokens)]

\* a retry time that would always be 0
getRetryAfterZero(b, needed, now) ==
    [bucket |-> [b EXCEPT !.tokens = Min(b.capacity, b.tokens
                                           + Times(now - b.lastRefill, b.refillRate)),
                          !.lastRefill = now],
     ms |-> 0]

\* a retry time that would be rounded down
getRetryAfterFloor(b, needed, now) ==
    LET r == [b EXCEPT !.tokens = Min(b.capacity, b.tokens
                                        + Times(now - b.lastRefill, b.refillRate)),
                       !.lastRefill = now]
    IN [bucket |-> r,
        ms |-> IF r.tokens >= Tokens(needed) THEN 0
               ELSE (Tokens(needed) - r.tokens) \div r.refillRate]

\* getRetryAfter(needed): the bucket after its refill, and the ms returned
getRetryAfter(b, needed, now) ==
    LET r == refill(b, now)
    IN [bucket |-> r,
        ms |-> IF r.tokens >= Tokens(needed) THEN 0
               ELSE CeilDiv(Tokens(needed) - r.tokens, r.refillRate)]

\* ------------------------------------------- what the checks below observe
\* the middleware has handled no request yet
NoResponse == [did |-> "none", headers |-> FALSE]


\* what the administrative calls return: getStats its count and identifiers,
\* getBucketState the stored state or null, resetAll the number of keys
NoReply == [totalClients |-> 0, clients |-> {}, null |-> TRUE, tokens |-> 0,
            lastRefill |-> 0, deleted |-> 0]

NoReturn == [call |-> "none", how |-> "none", identifier |-> "", tokens |-> 0,
             now |-> 0, allowed |-> FALSE, remaining |-> 0, retryAfter |-> 0,
             limit |-> 0, seen |-> 0, left |-> 0, serialOk |-> FALSE,
             afterReset |-> FALSE, isRetry |-> FALSE, removed |-> FALSE,
             reply |-> NoReply]

\* the returned call follows a completed reset of the same identifier
AfterReset(identifier) ==
    ret.call = "reset" /\ ret.how = "done" /\ ret.identifier = identifier

\* the returned call repeats the rejected check that returned just before it,
\* no earlier than the retryAfter that check was given
IsRetry(identifier, tokens, now) ==
    /\ ret.call = "checkLimit" /\ ret.how \in {"memory", "script"}
    /\ ~ret.allowed
    /\ ret.identifier = identifier /\ ret.tokens = tokens
    /\ now >= ret.now + ret.retryAfter

NoBurst == [now |-> 0, fresh |-> FALSE, admitted |-> 0, failed |-> 0, rejected |-> FALSE]

\* a check of `tokens` tokens stamped `now` has returned: admitted by the
\* store's check-and-consume, admitted by the fail-open path, or rejected
BurstAfter(b, tokens, now, existed, allowed, failed, elapsed) ==
    IF tokens # 1 \/ elapsed THEN NoBurst
    ELSE LET go == b # NoBurst /\ b.now = now
             was == IF go THEN b ELSE [NoBurst EXCEPT !.now = now, !.fresh = ~existed]
         IN [was EXCEPT !.admitted = Min(BurstCap, @ + IF allowed /\ ~failed THEN 1 ELSE 0),
                        !.failed = Min(BurstCap, @ + IF failed THEN 1 ELSE 0),
                        !.rejected = @ \/ ~allowed]

\* credit.g is the most, over all times t0 up to the last admission at credit.t,
\* of (tokens admitted since t0) - (credit.t - t0) * refillRate; ok says that the
\* timestamps so far were non-decreasing, with no reset and no store failure;
\* swept says that the bucket has been evicted (its key has expired) on the way
NoCredit == [g |-> 0, t |-> 0, ok |-> FALSE, swept |-> FALSE]
FirstCredit == [g |-> 0, t |-> 0, ok |-> TRUE, swept |-> FALSE]

CreditAfter(cr, tokens, now, allowed) ==
    IF ~cr.ok \/ now < cr.t THEN NoCredit
    ELSE [g |-> Max(0, cr.g - Times(now - cr.t, rule.refillRate))
                + IF allowed THEN Tokens(tokens) ELSE 0,
          t |-> now, ok |-> TRUE, swept |-> cr.swept]

\* ------------------------------------------------------- memoryStore.js
has(identifier) == identifier \in DOMAIN buckets

\* a write that would store the bucket under every key of the map
setEvery(map, identifier, bucket) ==
    [i \in DOMAIN map \cup {identifier} |-> bucket]

set(map, identifier, bucket) ==
    [i \in DOMAIN map \cup {identifier} |-> IF i = identifier THEN bucket ELSE map[i]]

\* a delete that would remove nothing
deleteNothing(map, identifier) == map

delete(map, identifier) == [i \in DOMAIN map \ {identifier} |-> map[i]]

getBucket(identifier, capacity, refillRate, now) ==
    IF has(identifier) THEN buckets[identifier]
    ELSE TokenBucket(capacity, refillRate, now)

\* checkLimit(identifier, {capacity, refillRate, tokens}): one synchronous
\* call.  consume, getState and getRetryAfter each read Date.now(): t1, then
\* t1 + j1, then t1 + j1 + j2.
MemCheckLimit(identifier, tokens, j1, j2) ==
    /\ store = "memory"
    /\ j1 + j2 > 0 => njitter < MaxJitter
    /\ njitter' = IF j1 + j2 > 0 THEN njitter + 1 ELSE njitter
    /\ LET t1 == clock
           bucket == getBucket(identifier, rule.capacity, rule.refillRate, t1)
           c == consume(bucket, tokens, t1)
           s == getState(c.bucket, t1 + j1)
           g == getRetryAfter(s.bucket, tokens, t1 + j1 + j2)
           final == IF c.ok THEN s.bucket ELSE g.bucket
       IN /\ c.ok => j2 = 0
          /\ buckets' = set(buckets, identifier, final)
          /\ clock' = final.lastRefill
          /\ ret' = [call |-> "checkLimit", how |-> "memory",
                     identifier |-> identifier, tokens |-> tokens,
                     now |-> final.lastRefill,
                     allowed |-> c.ok,
                     remaining |-> Tokens(Floor(Tokens(s.tokens))),
                     retryAfter |-> IF c.ok THEN 0 ELSE g.ms,
                     limit |-> rule.capacity,
                     seen |-> c.seen, left |-> c.bucket.tokens, serialOk |-> c.ok,
                     afterReset |-> AfterReset(identifier),
                     isRetry |-> IsRetry(identifier, tokens, t1),
                     removed |-> FALSE, reply |-> NoReply]
          /\ burst' = [burst EXCEPT ![identifier] =
                          BurstAfter(@, tokens, t1, has(identifier), c.ok, FALSE,
                                     j1 + j2 > 0)]
          /\ credit' = [credit EXCEPT ![identifier] = CreditAfter(@, tokens, t1, c.ok)]
    /\ checked' = checked \cup {identifier}
    /\ UNCHANGED <<options, quits, mw, store, nticks, rule, redisVars>>

\* reset(identifier)
\* a reset that would throw for an identifier it has no bucket of
MemResetStrict(identifier) ==
    /\ store = "memory"
    /\ buckets' = delete(buckets, identifier)
    /\ ret' = [NoReturn EXCEPT !.call = "reset", !.identifier = identifier,
                               !.how = IF has(identifier) THEN "done" ELSE "threw",
                               !.removed = has(identifier)]
    /\ burst' = [burst EXCEPT ![identifier] = NoBurst]
    /\ credit' = [credit EXCEPT ![identifier] = NoCredit]
    /\ checked' = checked \ {identifier}
    /\ UNCHANGED <<options, quits, mw, store, clock, nticks, njitter, rule, redisVars>>

MemReset(identifier) ==
    /\ store = "memory"
    /\ buckets' = delete(buckets, identifier)
    /\ ret' = [NoReturn EXCEPT !.call = "reset", !.how = "done",
                               !.identifier = identifier,
                               !.removed = has(identifier)]
    /\ burst' = [burst EXCEPT ![identifier] = NoBurst]
    /\ credit' = [credit EXCEPT ![identifier] = NoCredit]
    /\ checked' = checked \ {identifier}
    /\ UNCHANGED <<options, quits, mw, store, clock, nticks, njitter, rule, redisVars>>

\* the sweep startCleanup schedules with setInterval
MemCleanup ==
    /\ store = "memory"
    /\ LET now == clock
           inactive == {i \in DOMAIN buckets :
                            now - buckets[i].lastRefill > inactiveThreshold}
       IN /\ inactive # {}
          /\ buckets' = [i \in DOMAIN buckets \ inactive |-> buckets[i]]
          /\ burst' = [i \in DOMAIN burst |-> IF i \in inactive THEN NoBurst ELSE burst[i]]
          /\ credit' = [i \in DOMAIN credit |-> IF i \in inactive /\ credit[i].ok
                                     THEN [credit[i] EXCEPT !.swept = TRUE]
                                     ELSE credit[i]]
    /\ checked' = checked \ (DOMAIN buckets \ DOMAIN buckets')
    /\ UNCHANGED <<options, quits, mw, store, clock, nticks, njitter, rule, ret, redisVars>>

\* ------------------------------------------------------------ the clock
MemTick(d) ==
    /\ store = "memory"
    /\ nticks < MaxTicks
    /\ clock' = clock + d
    /\ nticks' = nticks + 1
    /\ UNCHANGED <<checked, options, quits, mw, store, njitter, rule, buckets, ret, burst, credit, redisVars>>

\* the caller of a rejected check waits the retryAfter it was given
MemWaitRetry ==
    /\ ret.call = "checkLimit" /\ ~ret.allowed /\ ret.retryAfter > 0
    /\ MemTick(ret.retryAfter)

\* ------------------------------------------------------- redisStore.js
\* two server processes share the Redis instance, with one call in flight each
Procs == {1, 2}
Callers == {1, 2}
ProcOf(c) == c

keyPrefix == "ratelimit:"
getKey(identifier) == options.keyPrefix \o identifier

NoArg == [op |-> "none"]

\* the Redis command a call sends first once it is connected
Command(op) ==
    CASE op = "checkLimit" -> "eval"
      [] op = "reset" -> "del"
      [] op = "getBucketState" -> "hgetall"
      [] OTHER -> "keys"          \* resetAll, getStats

\* a read that would find no hash under any key
HashNone(db, key) == [exists |-> FALSE, tokens |-> 0, last_refill |-> 0]

\* HMGET key tokens last_refill / HGETALL key
Hash(db, key) ==
    IF key \in DOMAIN db
    THEN [exists |-> TRUE, tokens |-> db[key].tokens, last_refill |-> db[key].last_refill]
    ELSE [exists |-> FALSE, tokens |-> 0, last_refill |-> 0]

\* a read that would miss what earlier scripts wrote
HMGETNone(c) == Hash(<<>>, keyPrefix \o arg[c].identifier)

\* the hash the script of caller c reads: the key's when Redis runs the script
HMGET(c) == Hash(redis, getKey(arg[c].identifier))

\* a script that would admit without taking the tokens
luaScriptNoDeduct(bucket, capacity, refill_rate, tokens_requested, now) ==
    LET tokens0 == IF bucket.exists THEN bucket.tokens ELSE capacity
        last_refill == IF bucket.exists THEN bucket.last_refill ELSE now
        tokens1 == Min(capacity, tokens0 + Times(now - last_refill, refill_rate))
        allowed == IF tokens1 >= Tokens(tokens_requested) THEN 1 ELSE 0
    IN [tokens |-> tokens1, last_refill |-> now,
        result |-> <<allowed, Floor(tokens1),
                     IF allowed = 0
                     THEN CeilDiv(Tokens(tokens_requested) - tokens1, refill_rate)
                     ELSE 0>>,
        seen |-> tokens1]

\* the Lua script on the hash it read: the hash it writes, the array it
\* returns, and the tokens its admission test saw
luaScript(bucket, capacity, refill_rate, tokens_requested, now) ==
    LET tokens0 == IF bucket.exists THEN bucket.tokens ELSE capacity
        last_refill == IF bucket.exists THEN bucket.last_refill ELSE now
        time_passed == now - last_refill
        tokens_to_add == Times(time_passed, refill_rate)
        tokens1 == Min(capacity, tokens0 + tokens_to_add)
        allowed == IF tokens1 >= Tokens(tokens_requested) THEN 1 ELSE 0
        tokens == IF allowed = 1 THEN tokens1 - Tokens(tokens_requested) ELSE tokens1
        retry_after == IF allowed = 0
                       THEN CeilDiv(Tokens(tokens_requested) - tokens, refill_rate)
                       ELSE 0
    IN [tokens |-> tokens, last_refill |-> now,
        result |-> <<allowed, Floor(tokens), retry_after>>,
        seen |-> tokens1]

\* a catch block that would fail closed
failClosed(capacity) ==
    [allowed |-> FALSE, remaining |-> 0, retryAfter |-> 1000, limit |-> capacity]

\* the catch block of checkLimit
failOpen(capacity) ==
    [allowed |-> TRUE, remaining |-> capacity, retryAfter |-> 0, limit |-> capacity]

\* keys whose time to live has run out are gone
Expired(db, at) == [k \in {x \in DOMAIN db : db[x].expireAt > at} |-> db[k]]

Idle == \A c \in Callers : pc[c] = "idle"

\* checkLimit / reset begin: connected already, they read Date.now() and send
\* their command; or connect() creates a client and is awaited first
RedisBegin(c, op, identifier, tokens) ==
    /\ store = "redis"
    /\ pc[c] = "idle"
    /\ IF isConnected[ProcOf(c)]
       THEN /\ pc' = [pc EXCEPT ![c] = Command(op)]
            /\ arg' = [arg EXCEPT ![c] = [op |-> op, identifier |-> identifier,
                                          tokens |-> tokens, now |-> clock]]
            /\ UNCHANGED client
       ELSE /\ client' = [client EXCEPT ![ProcOf(c)] = "client"]
            /\ pc' = [pc EXCEPT ![c] = "connect"]
            /\ arg' = [arg EXCEPT ![c] = [op |-> op, identifier |-> identifier,
                                          tokens |-> tokens, now |-> 0]]
    /\ UNCHANGED <<checked, options, quits, mw, store, clock, nticks, njitter, rule, ret, redis, isConnected,
                   burst, credit, serial, memVars>>

\* client.connect() resolves: 'ready' has set isConnected; the call goes on
\* to read Date.now() and send its command
ConnectOk(c) ==
    /\ pc[c] = "connect"
    /\ isConnected' = [isConnected EXCEPT ![ProcOf(c)] = TRUE]
    /\ pc' = [pc EXCEPT ![c] = Command(arg[c].op)]
    /\ arg' = [arg EXCEPT ![c].now = clock]
    /\ UNCHANGED <<checked, options, quits, mw, store, clock, nticks, njitter, rule, ret, redis, client,
                   burst, credit, serial, memVars>>

\* client.connect() rejects: connect() rethrows and so does the caller's call
ConnectFail(c) ==
    /\ pc[c] = "connect"
    /\ pc' = [pc EXCEPT ![c] = "idle"]
    /\ arg' = [arg EXCEPT ![c] = NoArg]
    /\ ret' = [NoReturn EXCEPT !.call = arg[c].op, !.how = "threw",
                               !.identifier = arg[c].identifier,
                               !.tokens = arg[c].tokens]
    /\ UNCHANGED <<checked, options, quits, mw, store, clock, nticks, njitter, rule, redis, client, isConnected,
                   burst, credit, serial, memVars>>

\* client.eval(luaScript, ...) is executed by Redis and its reply returned
Eval(c) ==
    /\ pc[c] = "eval"
    /\ LET a == arg[c]
           key == getKey(a.identifier)
           run == luaScript(HMGET(c), rule.capacity, rule.refillRate, a.tokens, a.now)
           one == consume(IF a.identifier \in DOMAIN serial THEN serial[a.identifier]
                          ELSE TokenBucket(rule.capacity, rule.refillRate, a.now),
                          a.tokens, a.now)
       IN /\ redis' = set(redis, key, [tokens |-> run.tokens,
                                       last_refill |-> run.last_refill,
                                       expireAt |-> clock + ExpireSeconds * 1000])
          /\ ret' = [call |-> "checkLimit", how |-> "script",
                     identifier |-> a.identifier, tokens |-> a.tokens, now |-> a.now,
                     allowed |-> (run.result[1] = 1),
                     remaining |-> Tokens(run.result[2]),
                     retryAfter |-> run.result[3],
                     limit |-> rule.capacity,
                     seen |-> run.seen, left |-> run.tokens, serialOk |-> one.ok,
                     afterReset |-> AfterReset(a.identifier),
                     isRetry |-> IsRetry(a.identifier, a.tokens, a.now),
                     removed |-> FALSE, reply |-> NoReply]
          /\ burst' = [burst EXCEPT ![a.identifier] =
                          BurstAfter(@, a.tokens, a.now, key \in DOMAIN redis,
                                     run.result[1] = 1, FALSE, FALSE)]
          /\ credit' = [credit EXCEPT ![a.identifier] =
                          CreditAfter(@, a.tokens, a.now, run.result[1] = 1)]
          /\ serial' = set(serial, a.identifier, one.bucket)
    /\ pc' = [pc EXCEPT ![c] = "idle"]
    /\ arg' = [arg EXCEPT ![c] = NoArg]
    /\ checked' = checked \cup {arg[c].identifier}
    /\ UNCHANGED <<options, quits, mw, store, clock, nticks, njitter, rule, client, isConnected, memVars>>

\* a catch block that would read the clock again and send the script again
EvalFailRetry(c) ==
    /\ pc[c] = "eval"
    /\ arg' = [arg EXCEPT ![c].now = clock]
    /\ UNCHANGED <<checked, options, quits, mw, store, clock, nticks, njitter, rule, ret, redis,
                   client, isConnected, pc, burst, credit, serial, memVars>>

\* client.eval rejects (Redis unreachable, script error): the catch block
EvalFail(c) ==
    /\ pc[c] = "eval"
    /\ LET a == arg[c]
           r == failOpen(rule.capacity)
       IN /\ ret' = [NoReturn EXCEPT !.call = "checkLimit", !.how = "failopen",
                                     !.identifier = a.identifier, !.tokens = a.tokens,
                                     !.now = a.now,
                                     !.allowed = r.allowed, !.remaining = r.remaining,
                                     !.retryAfter = r.retryAfter, !.limit = r.limit]
          /\ burst' = [burst EXCEPT ![a.identifier] =
                          BurstAfter(@, a.tokens, a.now,
                                     getKey(a.identifier) \in DOMAIN redis,
                                     r.allowed, TRUE, FALSE)]
          /\ credit' = [credit EXCEPT ![a.identifier] = NoCredit]
    /\ pc' = [pc EXCEPT ![c] = "idle"]
    /\ arg' = [arg EXCEPT ![c] = NoArg]
    /\ checked' = checked \cup {arg[c].identifier}
    /\ UNCHANGED <<options, quits, mw, store, clock, nticks, njitter, rule, redis, client, isConnected,
                   serial, memVars>>

\* reset(identifier): client.del(key) fails (Redis has become unreachable),
\* and reset, which has no catch, rejects with the error
DelFail(c) ==
    /\ pc[c] = "del"
    /\ pc' = [pc EXCEPT ![c] = "idle"]
    /\ arg' = [arg EXCEPT ![c] = NoArg]
    /\ ret' = [NoReturn EXCEPT !.call = "reset", !.how = "threw",
                               !.identifier = arg[c].identifier]
    /\ UNCHANGED <<checked, options, quits, mw, store, clock, nticks, njitter, rule, redis, client, isConnected,
                   burst, credit, serial, memVars>>

\* reset(identifier): client.del(key) is executed by Redis
Del(c) ==
    /\ pc[c] = "del"
    /\ redis' = delete(redis, getKey(arg[c].identifier))
    /\ serial' = delete(serial, arg[c].identifier)
    /\ ret' = [NoReturn EXCEPT !.call = "reset", !.how = "done",
                               !.identifier = arg[c].identifier,
                               !.removed = getKey(arg[c].identifier) \in DOMAIN redis]
    /\ burst' = [burst EXCEPT ![arg[c].identifier] = NoBurst]
    /\ credit' = [credit EXCEPT ![arg[c].identifier] = NoCredit]
    /\ pc' = [pc EXCEPT ![c] = "idle"]
    /\ arg' = [arg EXCEPT ![c] = NoArg]
    /\ checked' = checked \ {arg[c].identifier}
    /\ UNCHANGED <<options, quits, mw, store, clock, nticks, njitter, rule, client, isConnected, memVars>>

\* time passes while calls are in flight (a round trip is short) ...
RedisTick(d) ==
    /\ store = "redis"
    /\ nticks < MaxTicks
    /\ clock' = clock + d
    /\ redis' = Expired(redis, clock')
    /\ serial' = [i \in {x \in DOMAIN serial : getKey(x) \in DOMAIN redis'} |-> serial[i]]
    /\ burst' = [i \in DOMAIN burst |-> IF getKey(i) \in DOMAIN redis \ DOMAIN redis'
                               THEN NoBurst ELSE burst[i]]
    /\ credit' = [i \in DOMAIN credit |-> IF getKey(i) \in DOMAIN redis \ DOMAIN redis' /\ credit[i].ok
                                THEN [credit[i] EXCEPT !.swept = TRUE]
                                ELSE credit[i]]
    /\ nticks' = nticks + 1
    /\ checked' = {i \in checked : getKey(i) \notin DOMAIN redis \ DOMAIN redis'}
    /\ UNCHANGED <<options, quits, mw, store, njitter, rule, ret, client, isConnected, pc, arg, memVars>>

\* ... and an idle hour passes only between calls
RedisIdleHour ==
    /\ Idle
    /\ RedisTick(IdleStep)

\* the caller of a rejected check waits the retryAfter it was given
RedisWaitRetry ==
    /\ Idle
    /\ ret.call = "checkLimit" /\ ~ret.allowed /\ ret.retryAfter > 0
    /\ RedisTick(ret.retryAfter)

Init ==
    /\ store \in {"memory", "redis"}
    /\ clock = 0
    /\ nticks = 0 /\ njitter = 0
    /\ rule \in Rules
    /\ buckets = <<>>
    /\ redis = <<>>
    /\ client = [p \in Procs |-> "null"]
    /\ isConnected = [p \in Procs |-> FALSE]
    /\ pc = [c \in Callers |-> "idle"]
    /\ arg = [c \in Callers |-> NoArg]
    /\ ret = NoReturn
    /\ burst = [i \in Ids |-> NoBurst]
    /\ credit = [i \in Ids |-> FirstCredit]
    /\ serial = <<>>
    /\ checked = {}
    /\ options = [keyPrefix |-> keyPrefix]
    /\ quits = [p \in Procs |-> 0]
    /\ mw = NoResponse

NextMem ==
    \/ \E i \in Ids, n \in TokensRequested, j1 \in Jitter, j2 \in Jitter :
          MemCheckLimit(i, n, j1, j2)
    \/ \E i \in Ids : MemReset(i)
    \/ MemCleanup
    \/ \E d \in ShortSteps \cup {IdleStep} : MemTick(d)
    \/ MemWaitRetry

NextRedis ==
    \/ \E c \in Callers, i \in Ids, n \in TokensRequested : RedisBegin(c, "checkLimit", i, n)
    \/ \E c \in Callers, i \in Ids : RedisBegin(c, "reset", i, 0)
    \/ \E c \in Callers : ConnectOk(c)
    \/ \E c \in Callers : ConnectFail(c)
    \/ \E c \in Callers : Eval(c)
    \/ \E c \in Callers : EvalFail(c)
    \/ \E c \in Callers : Del(c)
    \/ \E c \in Callers : DelFail(c)
    \/ \E d \in ShortSteps : RedisTick(d)
    \/ RedisIdleHour
    \/ RedisWaitRetry

Next == NextMem \/ NextRedis

Spec == Init /\ [][Next]_vars

\* ===================================================== the properties

\* C4: when the execution of the script fails, checkLimit of the Redis store
\* throws nothing: it returns an admitted result with remaining = capacity,
\* retryAfter = 0 and limit = capacity.
FailOpenOnScriptFailure ==
    (ret.call = "checkLimit" /\ ret.how = "failopen") =>
        /\ ret.allowed
        /\ ret.remaining = rule.capacity
        /\ ret.retryAfter = 0
        /\ ret.limit = rule.capacity

\* a script failure on a rule whose capacity is not a whole number, with
\* another process's call still in flight
FailOpenReturned ==
    /\ ret.call = "checkLimit" /\ ret.how = "failopen"
    /\ Tokens(Floor(rule.capacity)) # rule.capacity
    /\ \E c \in Callers : pc[c] = "eval"

\* C5: a checkLimit of the Redis store issued while no connection is
\* established connects and evaluates, or returns the fail-open result; it
\* never raises an error to its caller.
CheckLimitNeverThrows ==
    ret.call = "checkLimit" => ret.how \in {"memory", "script", "failopen"}

\* C10: a script evaluated with a timestamp earlier than the stored last_refill
\* takes the elapsed time as zero: the tokens its admission test sees are no
\* fewer than the tokens stored.
ClockAnomalyClamped ==
    \A c \in Callers :
        (pc[c] = "eval" /\ HMGET(c).exists /\ arg[c].now < HMGET(c).last_refill) =>
            luaScript(HMGET(c), rule.capacity, rule.refillRate,
                      arg[c].tokens, arg[c].now).seen >= HMGET(c).tokens

\* C6: in every reachable state of either store every bucket has
\* 0 <= tokens <= capacity.
CapacityBound ==
    /\ \A i \in DOMAIN buckets :
           0 <= buckets[i].tokens /\ buckets[i].tokens <= buckets[i].capacity
    /\ \A k \in DOMAIN redis :
           0 <= redis[k].tokens /\ redis[k].tokens <= rule.capacity

\* C1 (as stated): of any number of calls of the Redis store's checkLimit for
\* one token on one identifier with the same timestamp, at most floor(capacity)
\* are admitted.
NoOverAdmission ==
    store = "redis" =>
        \A i \in Ids : (burst[i].admitted + burst[i].failed) * TokenUnit <= rule.capacity

\* C1 (amended): of those calls, at most floor(capacity) are admitted by the
\* script; a call whose script execution fails is admitted besides.
NoOverAdmissionByScript ==
    store = "redis" =>
        \A i \in Ids : burst[i].admitted * TokenUnit <= rule.capacity

\* floor(capacity) calls admitted and one rejected, with another process's
\* call of the same timestamp still in flight
BurstOverCapacity ==
    /\ store = "redis"
    /\ \E i \in Ids :
          /\ burst[i].admitted = Floor(rule.capacity)
          /\ burst[i].rejected
          /\ \E c \in Callers :
                /\ pc[c] = "eval" /\ arg[c].identifier = i
                /\ arg[c].tokens = 1 /\ arg[c].now = burst[i].now

\* C3: whatever the interleaving of the processes' calls, the stored
\* (tokens, last_refill) of each key and the decision of each call are those of
\* a TokenBucket consumed by the calls one at a time, in the order Redis ran
\* their scripts.
AtomicCheckAndConsume ==
    store = "redis" =>
        /\ DOMAIN serial = {i \in Ids : getKey(i) \in DOMAIN redis}
        /\ \A i \in DOMAIN serial :
               /\ redis[getKey(i)].tokens = serial[i].tokens
               /\ redis[getKey(i)].last_refill = serial[i].lastRefill
        /\ (ret.call = "checkLimit" /\ ret.how = "script") => ret.allowed = ret.serialOk

\* a call has been rejected by the script while a call of the other process,
\* which read its timestamp earlier, is still in flight
InterleavedCalls ==
    /\ ret.call = "checkLimit" /\ ret.how = "script" /\ ~ret.allowed
    /\ \E c \in Callers :
          /\ pc[c] = "eval" /\ arg[c].identifier = ret.identifier
          /\ arg[c].now < ret.now

\* C7 (as stated): the retry of a rejected check, made retryAfter ms later with
\* no other call on the identifier in between, is admitted.
RetryAdmitted ==
    (ret.call = "checkLimit" /\ ret.isRetry) => ret.allowed

\* C7 (amended): ... is admitted when it asks for no more than the capacity.
RetryAdmittedWithinCapacity ==
    (ret.call = "checkLimit" /\ ret.isRetry /\ Tokens(ret.tokens) <= rule.capacity)
        => ret.allowed

\* a retry made exactly retryAfter ms after a rejection, admitted on a bucket
\* that was neither evicted nor expired
RetryServed ==
    /\ ret.call = "checkLimit" /\ ret.isRetry /\ ret.allowed
    /\ ret.seen < rule.capacity
    /\ nticks = 1

\* C8: on an identifier never seen before and a whole-number capacity C, one-
\* token checks at one instant are admitted C times, the check after them is
\* rejected, and its retryAfter is the time one token takes to refill.
BurstThenExhaust ==
    \A i \in Ids :
        (burst[i].fresh /\ burst[i].failed = 0
           /\ Tokens(Floor(rule.capacity)) = rule.capacity) =>
            /\ burst[i].admitted * TokenUnit <= rule.capacity
            /\ burst[i].rejected => burst[i].admitted * TokenUnit = rule.capacity
            /\ (/\ ret.call = "checkLimit" /\ ret.how \in {"memory", "script"}
                /\ ret.identifier = i /\ ret.tokens = 1 /\ ~ret.allowed) =>
                   ret.retryAfter = CeilDiv(TokenUnit, rule.refillRate)

\* the check after the C admitted ones has just been rejected
BurstExhausted ==
    \E i \in Ids :
        /\ burst[i].fresh /\ burst[i].failed = 0 /\ burst[i].rejected
        /\ burst[i].admitted = 2 /\ rule.capacity = Tokens(2)
        /\ ret.call = "checkLimit" /\ ret.identifier = i /\ ~ret.allowed
        /\ ret.retryAfter = 334

\* C9 (as stated): the checkLimit after a reset is evaluated against a full
\* bucket of the call's capacity and leaves capacity minus the requested tokens.
ResetThenFirstCall ==
    (ret.call = "checkLimit" /\ ret.afterReset) =>
        /\ ret.seen = rule.capacity
        /\ ret.left = rule.capacity - Tokens(ret.tokens)

\* C9 (amended): ... and leaves capacity minus the requested tokens when they
\* are no more than the capacity; a larger request is rejected and leaves the
\* bucket full.
ResetThenFirstCallWithinCapacity ==
    (ret.call = "checkLimit" /\ ret.afterReset) =>
        /\ ret.seen = rule.capacity
        /\ ret.allowed = (Tokens(ret.tokens) <= rule.capacity)
        /\ ret.left = IF Tokens(ret.tokens) <= rule.capacity
                      THEN rule.capacity - Tokens(ret.tokens)
                      ELSE rule.capacity

\* a check admitted right after a reset made once time has passed
ResetOfUsedBucket ==
    /\ ret.call = "checkLimit" /\ ret.afterReset /\ ret.allowed
    /\ \E i \in Ids : credit[i] = NoCredit
    /\ nticks = 1

\* C2 (as stated): with non-decreasing timestamps, no reset and no store
\* failure, the tokens admitted between any two times t0 <= t1 are at most
\* capacity + (t1 - t0) * refillRate, across eviction and key expiry too.
RateCeiling ==
    \A i \in Ids : credit[i].ok => credit[i].g <= rule.capacity

\* C2 (amended): ... provided the rule refills an empty bucket within the
\* inactivity window: capacity <= inactiveThreshold * refillRate.
RateCeilingOfRefilledBuckets ==
    rule.capacity <= Times(inactiveThreshold, rule.refillRate) =>
        \A i \in Ids : credit[i].ok => credit[i].g <= rule.capacity

\* the ceiling is reached after the bucket was evicted, or its key expired
CeilingAfterSweep ==
    /\ rule.capacity <= Times(inactiveThreshold, rule.refillRate)
    /\ \E i \in Ids : credit[i].ok /\ credit[i].swept /\ credit[i].g = rule.capacity

\* ============================================ calls with a configuration error
\* capacities that are not positive, and the identifier a caller leaves out:
\* undefined names the Map entry and, as `${prefix}${identifier}`, the key
InvalidRules == { [capacity |-> 0, refillRate |-> PerSecond(3)],
                  [capacity |-> -Tokens(1), refillRate |-> PerSecond(3)] }
undefined == "undefined"
IdsConfig == Ids \cup {undefined}

\* the call has a configuration error
Misconfigured(identifier) == rule \in InvalidRules \/ identifier = undefined

InitConfig ==
    /\ store \in {"memory", "redis"}
    /\ clock = 0
    /\ nticks = 0 /\ njitter = 0
    /\ rule \in Rules \cup InvalidRules
    /\ buckets = <<>>
    /\ redis = <<>>
    /\ client = [p \in Procs |-> "null"]
    /\ isConnected = [p \in Procs |-> FALSE]
    /\ pc = [c \in Callers |-> "idle"]
    /\ arg = [c \in Callers |-> NoArg]
    /\ ret = NoReturn
    /\ burst = [i \in IdsConfig |-> NoBurst]
    /\ credit = [i \in IdsConfig |-> FirstCredit]
    /\ serial = <<>>
    /\ checked = {}
    /\ options = [keyPrefix |-> keyPrefix]
    /\ quits = [p \in Procs |-> 0]
    /\ mw = NoResponse

\* only calls with a configuration error are made, and Redis is reachable
NextConfig ==
    \/ \E i \in IdsConfig, n \in TokensRequested :
          Misconfigured(i) /\ MemCheckLimit(i, n, 0, 0)
    \/ \E d \in ShortSteps : MemTick(d)
    \/ \E c \in Callers, i \in IdsConfig, n \in TokensRequested :
          Misconfigured(i) /\ RedisBegin(c, "checkLimit", i, n)
    \/ \E c \in Callers : ConnectOk(c)
    \/ \E c \in Callers : Eval(c)
    \/ \E d \in ShortSteps : RedisTick(d)

SpecConfig == InitConfig /\ [][NextConfig]_vars

\* C11: a checkLimit with a non-positive capacity, a non-positive refill rate
\* or a missing identifier returns or raises an error, and creates or changes
\* no bucket.
ConfigErrorsRejected ==
    /\ (ret.call = "checkLimit" /\ Misconfigured(ret.identifier)) => ret.how = "error"
    /\ rule \in InvalidRules => (buckets = <<>> /\ redis = <<>>)
    /\ ~has(undefined) /\ getKey(undefined) \notin DOMAIN redis

\* ================================================ properties of the bucket

\* C12: a request for more tokens than the capacity is rejected whenever it is
\* evaluated, however long the caller has waited, with a retryAfter that is
\* not 0.
OversizeAlwaysRejected ==
    (/\ ret.call = "checkLimit" /\ ret.how \in {"memory", "script"}
     /\ Tokens(ret.tokens) > rule.capacity) =>
        (~ret.allowed /\ ret.retryAfter > 0)

\* an oversize request rejected again after the wait it was told
OversizeRetried ==
    /\ ret.call = "checkLimit" /\ ret.isRetry /\ ~ret.allowed
    /\ Tokens(ret.tokens) > rule.capacity
    /\ nticks = 1

\* C13: immediately after an admitted check for n tokens the bucket holds
\* min(capacity, tokens before + elapsed * refillRate) - n, the elapsed time
\* being that of the contract: never negative.
ConservationUnderConsumption ==
    [][/\ \A i \in Ids, n \in TokensRequested, j1 \in Jitter :
            (MemCheckLimit(i, n, j1, 0) /\ ret'.allowed) =>
                LET before == IF has(i) THEN buckets[i].tokens ELSE rule.capacity
                    capacity == IF has(i) THEN buckets[i].capacity ELSE rule.capacity
                    elapsed == IF has(i) THEN Max(0, clock - buckets[i].lastRefill) ELSE 0
                IN ret'.left = Min(capacity, before + Times(elapsed, rule.refillRate))
                                  - Tokens(n)
       /\ \A c \in Callers :
            (Eval(c) /\ ret'.allowed) =>
                LET h == HMGET(c)
                    before == IF h.exists THEN h.tokens ELSE rule.capacity
                    elapsed == IF h.exists THEN Max(0, arg[c].now - h.last_refill) ELSE 0
                IN redis'[getKey(arg[c].identifier)].tokens =
                       Min(rule.capacity, before + Times(elapsed, rule.refillRate))
                           - Tokens(arg[c].tokens)]_vars

\* C14: with no consumption between two observations of a bucket at
\* t1 < t2, tokens(t2) >= tokens(t1), and the increase is
\* min(capacity - tokens(t1), (t2 - t1) * refillRate).  The observations are
\* those of a check that is rejected, which refills and takes nothing.
MonotonicRefill ==
    [][/\ \A i \in Ids, n \in TokensRequested, j1 \in Jitter, j2 \in Jitter :
            (/\ MemCheckLimit(i, n, j1, j2) /\ ~ret'.allowed
             /\ has(i) /\ buckets'[i].lastRefill > buckets[i].lastRefill) =>
                /\ buckets'[i].tokens >= buckets[i].tokens
                /\ buckets'[i].tokens - buckets[i].tokens =
                       Min(buckets[i].capacity - buckets[i].tokens,
                           Times(buckets'[i].lastRefill - buckets[i].lastRefill,
                                 buckets[i].refillRate))
       /\ \A c \in Callers :
            (/\ Eval(c) /\ ~ret'.allowed
             /\ HMGET(c).exists /\ arg[c].now > HMGET(c).last_refill) =>
                LET key == getKey(arg[c].identifier)
                IN /\ redis'[key].tokens >= redis[key].tokens
                   /\ redis'[key].tokens - redis[key].tokens =
                          Min(rule.capacity - redis[key].tokens,
                              Times(arg[c].now - redis[key].last_refill,
                                    rule.refillRate))]_vars

\* an emptied bucket of 2 tokens at 3 per second observed half a second
\* later by a check for 2 tokens: rejected, having seen 1.5 tokens
RefillObserved ==
    /\ ret.call = "checkLimit" /\ ret.how \in {"memory", "script"} /\ ~ret.allowed
    /\ rule.capacity = Tokens(2)
    /\ ret.seen = Tokens(1) + TokenUnit \div 2

\* C15: a checkLimit of the memory store is one synchronous call, so of any
\* number of one-token calls at one instant on a bucket of capacity C at most
\* floor(C) are admitted.
LocalNoOverAdmission ==
    store = "memory" =>
        \A i \in Ids : burst[i].admitted * TokenUnit <= rule.capacity

\* floor(C) calls admitted and a further one rejected at the same instant
LocalBurstOverCapacity ==
    /\ store = "memory"
    /\ \E i \in Ids :
          /\ burst[i].admitted = Floor(rule.capacity) /\ burst[i].rejected
          /\ has(i) /\ buckets[i].lastRefill = burst[i].now

\* C16: the remaining value every checkLimit returns is a non-negative whole
\* number, the floor of the token count the call leaves in the bucket.
RemainingIsFloor ==
    (ret.call = "checkLimit" /\ ret.how \in {"memory", "script"}) =>
        /\ ret.remaining >= 0
        /\ ret.remaining = Tokens(Floor(ret.remaining))
        /\ (ret.how = "memory" /\ has(ret.identifier)) =>
               ret.remaining = Tokens(Floor(buckets[ret.identifier].tokens))
        /\ (ret.how = "script" /\ getKey(ret.identifier) \in DOMAIN redis) =>
               ret.remaining = Tokens(Floor(redis[getKey(ret.identifier)].tokens))

\* ============================== two rules on one store and one identifier
\* two limiters created with different capacities and the same RedisStore, as
\* the Redis demo server creates them, check the same client identifier
RuleA == [capacity |-> Tokens(2), refillRate |-> PerSecond(3)]
RuleB == [capacity |-> Tokens(3), refillRate |-> PerSecond(1)]

InitRules ==
    /\ store = "redis"
    /\ clock = 0
    /\ nticks = 0 /\ njitter = 0
    /\ rule = RuleA
    /\ buckets = <<>>
    /\ redis = <<>>
    /\ client = [p \in Procs |-> "null"]
    /\ isConnected = [p \in Procs |-> FALSE]
    /\ pc = [c \in Callers |-> "idle"]
    /\ arg = [c \in Callers |-> NoArg]
    /\ ret = NoReturn
    /\ burst = [i \in Ids |-> NoBurst]
    /\ credit = [i \in Ids |-> FirstCredit]
    /\ serial = <<>>
    /\ checked = {}
    /\ options = [keyPrefix |-> keyPrefix]
    /\ quits = [p \in Procs |-> 0]
    /\ mw = NoResponse

\* the requests for the route limited by RuleA are followed by requests for
\* the route limited by RuleB
NextRoute ==
    /\ Idle
    /\ rule = RuleA
    /\ rule' = RuleB
    /\ UNCHANGED <<checked, options, quits, mw, store, clock, nticks, njitter, buckets, redis, client, isConnected,
                   pc, arg, ret, burst, credit, serial>>

NextRules ==
    \/ \E c \in Callers, i \in Ids, n \in TokensRequested : RedisBegin(c, "checkLimit", i, n)
    \/ \E c \in Callers : ConnectOk(c)
    \/ \E c \in Callers : Eval(c)
    \/ \E d \in ShortSteps : RedisTick(d)
    \/ NextRoute

SpecRules == InitRules /\ [][NextRules]_vars

\* C17: the tokens consumed under one rule do not change the decisions made
\* under the other: the first check evaluated under RuleB, whatever was
\* consumed under RuleA, is decided on the full bucket of RuleB, and so
\* admitted.
RulesDoNotInterfere ==
    [][\A c \in Callers :
          (Eval(c) /\ rule = RuleB /\ ret.limit # RuleB.capacity) =>
              ret'.allowed = (Tokens(arg[c].tokens) <= RuleB.capacity)]_vars

\* ===================== the two stores driven by the same sequence of calls
\* a MemoryStore and a RedisStore (connected, Redis reachable) are given the
\* same calls, one after the other, with the same timestamps
InitPair ==
    /\ store = "pair"
    /\ clock = 0
    /\ nticks = 0 /\ njitter = 0
    /\ rule \in Rules
    /\ buckets = <<>>
    /\ redis = <<>>
    /\ client = [p \in Procs |-> "client"]
    /\ isConnected = [p \in Procs |-> TRUE]
    /\ pc = [c \in Callers |-> "idle"]
    /\ arg = [c \in Callers |-> NoArg]
    /\ ret = NoReturn
    /\ burst = [i \in Ids |-> NoBurst]
    /\ credit = [i \in Ids |-> FirstCredit]
    /\ serial = <<>>
    /\ checked = {}
    /\ options = [keyPrefix |-> keyPrefix]
    /\ quits = [p \in Procs |-> 0]
    /\ mw = NoResponse

\* checkLimit(identifier, {capacity, refillRate, tokens}) of both stores at
\* the timestamp `clock`; ret is what the MemoryStore returns
PairCheckLimit(identifier, tokens) ==
    /\ store = "pair"
    /\ LET now == clock
           bucket == getBucket(identifier, rule.capacity, rule.refillRate, now)
           c == consume(bucket, tokens, now)
           s == getState(c.bucket, now)
           g == getRetryAfter(s.bucket, tokens, now)
           final == IF c.ok THEN s.bucket ELSE g.bucket
           run == luaScript(Hash(redis, getKey(identifier)), rule.capacity,
                            rule.refillRate, tokens, now)
       IN /\ buckets' = set(buckets, identifier, final)
          /\ redis' = set(redis, getKey(identifier),
                          [tokens |-> run.tokens, last_refill |-> run.last_refill,
                           expireAt |-> clock + ExpireSeconds * 1000])
          /\ ret' = [call |-> "checkLimit", how |-> "memory",
                     identifier |-> identifier, tokens |-> tokens, now |-> now,
                     allowed |-> c.ok,
                     remaining |-> Tokens(Floor(Tokens(s.tokens))),
                     retryAfter |-> IF c.ok THEN 0 ELSE g.ms,
                     limit |-> rule.capacity,
                     seen |-> c.seen, left |-> c.bucket.tokens, serialOk |-> c.ok,
                     afterReset |-> AfterReset(identifier),
                     isRetry |-> IsRetry(identifier, tokens, now),
                     removed |-> FALSE, reply |-> NoReply]
    /\ checked' = checked \cup {identifier}
    /\ UNCHANGED <<options, quits, mw, store, clock, nticks, njitter, rule, client, isConnected, pc, arg,
                   burst, credit, serial>>

\* reset(identifier) of both stores
PairReset(identifier) ==
    /\ store = "pair"
    /\ buckets' = delete(buckets, identifier)
    /\ redis' = delete(redis, getKey(identifier))
    /\ ret' = [NoReturn EXCEPT !.call = "reset", !.how = "done",
                               !.identifier = identifier,
                               !.removed = has(identifier)]
    /\ checked' = checked \ {identifier}
    /\ UNCHANGED <<options, quits, mw, store, clock, nticks, njitter, rule, client, isConnected, pc, arg,
                   burst, credit, serial>>

\* the sweep of the MemoryStore, when its timer fires
PairCleanup ==
    /\ store = "pair"
    /\ LET inactive == {i \in DOMAIN buckets :
                            clock - buckets[i].lastRefill > inactiveThreshold}
       IN /\ inactive # {}
          /\ buckets' = [i \in DOMAIN buckets \ inactive |-> buckets[i]]
    /\ UNCHANGED <<checked, options, quits, mw, store, clock, nticks, njitter, rule, redis, client, isConnected,
                   pc, arg, ret, burst, credit, serial>>

\* time passes, and Redis removes the keys whose time to live has run out
PairTick(d) ==
    /\ store = "pair"
    /\ nticks < MaxTicks
    /\ clock' = clock + d
    /\ nticks' = nticks + 1
    /\ redis' = Expired(redis, clock')
    /\ UNCHANGED <<checked, options, quits, mw, store, njitter, rule, buckets, client, isConnected, pc, arg, ret,
                   burst, credit, serial>>

PairWaitRetry ==
    /\ ret.call = "checkLimit" /\ ~ret.allowed /\ ret.retryAfter > 0
    /\ PairTick(ret.retryAfter)

NextPair ==
    \/ \E i \in Ids, n \in TokensRequested : PairCheckLimit(i, n)
    \/ \E i \in Ids : PairReset(i)
    \/ PairCleanup
    \/ \E d \in ShortSteps \cup {IdleStep} : PairTick(d)
    \/ PairWaitRetry

SpecPair == InitPair /\ [][NextPair]_vars

Result(allowed) == [settled |-> TRUE, allowed |-> allowed]
Promise == [settled |-> FALSE, allowed |-> FALSE]

\* rateLimiterMiddleware from `const result = ...` on: with headers it calls
\* res.setHeader(name, result.limit), which throws on an undefined value;
\* then next() if result.allowed is truthy, and the 429 answer otherwise
rateLimiterMiddleware(result, headers) ==
    IF headers /\ ~result.settled THEN "threw"
    ELSE IF result.settled /\ result.allowed THEN "next"
    ELSE "429"

InitMiddleware ==
    /\ store \in {"memory", "redis"}
    /\ clock = 0
    /\ nticks = 0 /\ njitter = 0
    /\ rule \in Rules
    /\ buckets = <<>>
    /\ redis = <<>>
    /\ client = [p \in Procs |-> "null"]
    /\ isConnected = [p \in Procs |-> FALSE]
    /\ pc = [c \in Callers |-> "idle"]
    /\ arg = [c \in Callers |-> NoArg]
    /\ ret = NoReturn
    /\ burst = [i \in Ids |-> NoBurst]
    /\ credit = [i \in Ids |-> FirstCredit]
    /\ serial = <<>>
    /\ checked = {}
    /\ options = [keyPrefix |-> keyPrefix]
    /\ quits = [p \in Procs |-> 0]
    /\ mw \in {[did |-> "none", headers |-> h] : h \in BOOLEAN}

\* a request of client `identifier` handled by a limiter on the MemoryStore:
\* checkLimit for 1 token runs to its end and returns the result
MiddlewareMemory(identifier) ==
    /\ store = "memory"
    /\ LET now == clock
           bucket == getBucket(identifier, rule.capacity, rule.refillRate, now)
           c == consume(bucket, 1, now)
           s == getState(c.bucket, now)
           g == getRetryAfter(s.bucket, 1, now)
           final == IF c.ok THEN s.bucket ELSE g.bucket
       IN /\ buckets' = set(buckets, identifier, final)
          /\ ret' = [call |-> "checkLimit", how |-> "memory",
                     identifier |-> identifier, tokens |-> 1, now |-> now,
                     allowed |-> c.ok,
                     remaining |-> Tokens(Floor(Tokens(s.tokens))),
                     retryAfter |-> IF c.ok THEN 0 ELSE g.ms,
                     limit |-> rule.capacity,
                     seen |-> c.seen, left |-> c.bucket.tokens, serialOk |-> c.ok,
                     afterReset |-> AfterReset(identifier),
                     isRetry |-> IsRetry(identifier, 1, now),
                     removed |-> FALSE, reply |-> NoReply]
          /\ mw' = [mw EXCEPT !.did = rateLimiterMiddleware(Result(c.ok), mw.headers)]
    /\ checked' = checked \cup {identifier}
    /\ UNCHANGED <<options, quits, store, clock, nticks, njitter, rule, burst, credit, redisVars>>

\* a request handled by a limiter on the RedisStore, in process c: checkLimit
\* runs up to its first await and returns its promise, and the middleware
\* goes on with the promise
MiddlewareRedis(c, identifier) ==
    /\ store = "redis"
    /\ Idle
    /\ IF isConnected[ProcOf(c)]
       THEN /\ pc' = [pc EXCEPT ![c] = "eval"]
            /\ arg' = [arg EXCEPT ![c] = [op |-> "checkLimit", identifier |-> identifier,
                                          tokens |-> 1, now |-> clock]]
            /\ UNCHANGED client
       ELSE /\ client' = [client EXCEPT ![ProcOf(c)] = "client"]
            /\ pc' = [pc EXCEPT ![c] = "connect"]
            /\ arg' = [arg EXCEPT ![c] = [op |-> "checkLimit", identifier |-> identifier,
                                          tokens |-> 1, now |-> 0]]
    /\ mw' = [mw EXCEPT !.did = rateLimiterMiddleware(Promise, mw.headers)]
    /\ UNCHANGED <<checked, options, quits, store, clock, nticks, njitter, rule, ret, redis, isConnected,
                   burst, credit, serial, memVars>>

NextMiddleware ==
    \/ \E i \in Ids : MiddlewareMemory(i)
    \/ \E d \in ShortSteps : MemTick(d)
    \/ MemWaitRetry
    \/ \E c \in Callers, i \in Ids : MiddlewareRedis(c, i)
    \/ \E c \in Callers : ConnectOk(c)
    \/ \E c \in Callers : ConnectFail(c)
    \/ \E c \in Callers : Eval(c)
    \/ \E c \in Callers : EvalFail(c)
    \/ \E d \in ShortSteps : RedisTick(d)
    \/ RedisWaitRetry

SpecMiddleware == InitMiddleware /\ [][NextMiddleware]_vars

\* C19: the middleware passes a request to the next handler exactly when the
\* store's check for it admits it, and answers 429 otherwise, with the Redis
\* store as with the memory store.
MiddlewareFollowsStore ==
    (/\ mw.did # "none" /\ Idle
     /\ ret.call = "checkLimit" /\ ret.how \in {"memory", "script", "failopen"}) =>
        mw.did = IF ret.allowed THEN "next" ELSE "429"

\* ===================================================== reset of nothing
\* the step ends a reset, by caller c, of an identifier that has no key
ResetOfNothing(c) ==
    /\ arg[c].op = "reset"
    /\ getKey(arg[c].identifier) \notin DOMAIN redis
    /\ (Del(c) \/ DelFail(c) \/ ConnectFail(c))

RejectedCheckRefills ==
    [][/\ \A i \in Ids, n \in TokensRequested, j1 \in Jitter, j2 \in Jitter :
            (MemCheckLimit(i, n, j1, j2) /\ ~ret'.allowed) =>
                LET before == IF has(i) THEN buckets[i].tokens ELSE rule.capacity
                    capacity == IF has(i) THEN buckets[i].capacity ELSE rule.capacity
                    elapsed == IF has(i) THEN Max(0, clock' - buckets[i].lastRefill) ELSE 0
                    refillRate == IF has(i) THEN buckets[i].refillRate ELSE rule.refillRate
                IN /\ buckets'[i].tokens = Min(capacity, before + Times(elapsed, refillRate))
                   /\ buckets'[i].lastRefill = clock'
       /\ \A c \in Callers :
            (Eval(c) /\ ~ret'.allowed) =>
                LET h == HMGET(c)
                    key == getKey(arg[c].identifier)
                    before == IF h.exists THEN h.tokens ELSE rule.capacity
                    elapsed == IF h.exists THEN Max(0, arg[c].now - h.last_refill) ELSE 0
                IN /\ redis'[key].tokens =
                          Min(rule.capacity, before + Times(elapsed, rule.refillRate))
                   /\ redis'[key].last_refill = arg[c].now]_vars

\* ============================================================ the retry time
\* the Local Store checked a third of a second after a bucket was emptied:
\* at 3 tokens per second the bucket then holds 0.999 tokens, and 1.002 a
\* millisecond later
RetrySteps == {333, 500}

InitRetry ==
    /\ Init
    /\ store = "memory"

NextRetry ==
    \/ \E i \in Ids, n \in TokensRequested, j1 \in Jitter, j2 \in Jitter :
          MemCheckLimit(i, n, j1, j2)
    \/ \E i \in Ids : MemReset(i)
    \/ \E d \in RetrySteps : MemTick(d)
    \/ MemWaitRetry

SpecRetry == InitRetry /\ [][NextRetry]_vars

\* C25: retryAfter is 0 on every admitted check; on every rejected check it
\* is ceil(((tokensRequested - tokens after refill) / refillRate) * 1000),
\* the tokens being those the call leaves in the bucket, and strictly
\* positive.
RetryAfterOfRejection ==
    (ret.call = "checkLimit" /\ ret.how \in {"memory", "script"}) =>
        /\ ret.allowed => ret.retryAfter = 0
        /\ ~ret.allowed => ret.retryAfter > 0
        /\ (~ret.allowed /\ ret.how = "memory" /\ has(ret.identifier)) =>
               ret.retryAfter = CeilDiv(Tokens(ret.tokens) - buckets[ret.identifier].tokens,
                                        rule.refillRate)
        /\ (~ret.allowed /\ ret.how = "script" /\ getKey(ret.identifier) \in DOMAIN redis) =>
               ret.retryAfter = CeilDiv(Tokens(ret.tokens) - redis[getKey(ret.identifier)].tokens,
                                        rule.refillRate)

\* =========================== the administrative operations of the two stores
\* two client identifiers, and an entry of the shared Redis instance that is
\* not a bucket of this store
IdsAdmin == {"a", "b"}
OtherKey == "session:a"
OtherEntry == [value |-> "data", expireAt |-> Saturate]
\* the clock between two calls: half a second, the inactivity window exactly,
\* or a ms more
AdminSteps == {500, inactiveThreshold, IdleStep}

\* a listing that would find no key
keysNone(db, prefix) == {}

\* client.keys(`${keyPrefix}*`): the keys that are the prefix followed by
\* anything (a keyPrefix free of glob characters)
keys(db, prefix) == {k \in DOMAIN db : \E i \in IdsAdmin : k = prefix \o i}

\* k.replace(keyPrefix, ''): a key that starts with the prefix, without it
replace(k, prefix) == CHOOSE i \in IdsAdmin : k = prefix \o i

\* MemoryStore.resetAll()
MemResetAll ==
    /\ store = "memory"
    /\ buckets' = <<>>
    /\ ret' = [NoReturn EXCEPT !.call = "resetAll", !.how = "done"]
    /\ burst' = [i \in DOMAIN burst |-> NoBurst]
    /\ credit' = [i \in DOMAIN credit |-> NoCredit]
    /\ checked' = {}
    /\ UNCHANGED <<options, quits, mw, store, clock, nticks, njitter, rule, redisVars>>

\* MemoryStore.getStats()
MemGetStats ==
    /\ store = "memory"
    /\ ret' = [NoReturn EXCEPT !.call = "getStats", !.how = "done",
                               !.reply = [NoReply EXCEPT
                                   !.totalClients = Cardinality(DOMAIN buckets),
                                   !.clients = DOMAIN buckets]]
    /\ UNCHANGED <<checked, options, quits, mw, store, clock, nticks, njitter, rule, buckets,
                   burst, credit, redisVars>>

\* resetAll / getStats: client.keys(pattern) is executed by Redis.  getStats
\* returns what it lists; resetAll returns 0 when nothing is listed, and
\* otherwise goes on to delete the keys listed (the identifiers it lists no
\* key of are reset here, the others when their keys are deleted)
Keys(c) ==
    /\ pc[c] = "keys"
    /\ LET ks == keys(redis, options.keyPrefix)
       IN IF arg[c].op = "getStats"
          THEN /\ ret' = [NoReturn EXCEPT !.call = "getStats", !.how = "done",
                              !.reply = [NoReply EXCEPT
                                  !.totalClients = Cardinality(ks),
                                  !.clients = {replace(k, options.keyPrefix) : k \in ks}]]
               /\ pc' = [pc EXCEPT ![c] = "idle"]
               /\ arg' = [arg EXCEPT ![c] = NoArg]
               /\ UNCHANGED checked
          ELSE IF ks = {}
          THEN /\ ret' = [NoReturn EXCEPT !.call = "resetAll", !.how = "done"]
               /\ pc' = [pc EXCEPT ![c] = "idle"]
               /\ arg' = [arg EXCEPT ![c] = NoArg]
               /\ checked' = {}
          ELSE /\ pc' = [pc EXCEPT ![c] = "delkeys"]
               /\ arg' = [arg EXCEPT ![c] = [op |-> "resetAll", identifier |-> "",
                                             tokens |-> 0, now |-> 0, keys |-> ks]]
               /\ checked' = {i \in checked : getKey(i) \in ks}
               /\ UNCHANGED ret
    /\ UNCHANGED <<options, quits, mw, store, clock, nticks, njitter, rule, redis, client,
                   isConnected, burst, credit, serial, memVars>>

\* resetAll: client.del(keys) is executed by Redis
DelKeys(c) ==
    /\ pc[c] = "delkeys"
    /\ LET gone == DOMAIN redis \cap arg[c].keys
       IN /\ redis' = [k \in DOMAIN redis \ gone |-> redis[k]]
          /\ serial' = [i \in {x \in DOMAIN serial : getKey(x) \notin gone} |-> serial[i]]
          /\ burst' = [i \in DOMAIN burst |-> IF getKey(i) \in gone THEN NoBurst
                                                ELSE burst[i]]
          /\ credit' = [i \in DOMAIN credit |-> IF getKey(i) \in gone THEN NoCredit
                                                  ELSE credit[i]]
    /\ ret' = [NoReturn EXCEPT !.call = "resetAll", !.how = "done",
                               !.reply = [NoReply EXCEPT
                                   !.deleted = Cardinality(arg[c].keys)]]
    /\ checked' = {i \in checked : getKey(i) \notin arg[c].keys}
    /\ pc' = [pc EXCEPT ![c] = "idle"]
    /\ arg' = [arg EXCEPT ![c] = NoArg]
    /\ UNCHANGED <<options, quits, mw, store, clock, nticks, njitter, rule, client, isConnected,
                   memVars>>

\* getBucketState(identifier): client.hGetAll(key) is executed by Redis; null
\* for no hash or a hash without tokens, else the stored fields parsed
HGetAll(c) ==
    /\ pc[c] = "hgetall"
    /\ LET bucket == Hash(redis, getKey(arg[c].identifier))
       IN ret' = [NoReturn EXCEPT !.call = "getBucketState", !.how = "done",
                     !.identifier = arg[c].identifier, !.now = arg[c].now,
                     !.reply = IF ~bucket.exists THEN NoReply
                               ELSE [NoReply EXCEPT !.null = FALSE,
                                                    !.tokens = bucket.tokens,
                                                    !.lastRefill = bucket.last_refill]]
    /\ pc' = [pc EXCEPT ![c] = "idle"]
    /\ arg' = [arg EXCEPT ![c] = NoArg]
    /\ UNCHANGED <<checked, options, quits, mw, store, clock, nticks, njitter, rule, redis,
                   client, isConnected, burst, credit, serial, memVars>>

\* the rule of the limiter: one token, refilled in a second
RuleAdmin == [capacity |-> Tokens(1), refillRate |-> PerSecond(1)]

\* both processes have connected at startup, as the Redis demo server does
InitAdmin ==
    /\ store \in {"memory", "redis"}
    /\ clock = 0
    /\ nticks = 0 /\ njitter = 0
    /\ rule = RuleAdmin
    /\ buckets = <<>>
    /\ redis = (OtherKey :> OtherEntry)
    /\ client = [p \in Procs |-> "client"]
    /\ isConnected = [p \in Procs |-> TRUE]
    /\ pc = [c \in Callers |-> "idle"]
    /\ arg = [c \in Callers |-> NoArg]
    /\ ret = NoReturn
    /\ burst = [i \in IdsAdmin |-> NoBurst]
    /\ credit = [i \in IdsAdmin |-> FirstCredit]
    /\ serial = <<>>
    /\ checked = {}
    /\ options = [keyPrefix |-> keyPrefix]
    /\ quits = [p \in Procs |-> 0]
    /\ mw = NoResponse

\* one process serves the clients' requests while the other runs the
\* administrative calls
NextAdmin ==
    \/ \E i \in IdsAdmin : MemCheckLimit(i, 1, 0, 0)
    \/ \E i \in IdsAdmin : MemReset(i)
    \/ MemResetAll
    \/ MemGetStats
    \/ MemCleanup
    \/ \E d \in AdminSteps : MemTick(d)
    \/ \E i \in IdsAdmin : RedisBegin(1, "checkLimit", i, 1)
    \/ \E i \in IdsAdmin, op \in {"reset", "getBucketState"} : RedisBegin(2, op, i, 0)
    \/ \E op \in {"resetAll", "getStats"} : RedisBegin(2, op, "", 0)
    \/ \E c \in Callers : Eval(c)
    \/ \E c \in Callers : EvalFail(c)
    \/ \E c \in Callers : Del(c)
    \/ \E c \in Callers : Keys(c)
    \/ \E c \in Callers : DelKeys(c)
    \/ \E c \in Callers : HGetAll(c)
    \/ \E d \in AdminSteps : Idle /\ RedisTick(d)

SpecAdmin == InitAdmin /\ [][NextAdmin]_vars

\* C21: getBucketState returns null for an identifier that was never checked,
\* or not since it was reset or its key expired; it never creates or changes
\* a bucket; and for an existing bucket it returns the stored tokens and
\* last-refill timestamp as they are, neither refilled nor consumed.
BucketStateIsARead ==
    [][\A c \in Callers : HGetAll(c) =>
          LET i == arg[c].identifier
              key == getKey(i)
          IN /\ redis' = redis
             /\ i \notin checked => ret'.reply.null
             /\ key \notin DOMAIN redis => ret'.reply.null
             /\ key \in DOMAIN redis =>
                    /\ ~ret'.reply.null
                    /\ ret'.reply.tokens = redis[key].tokens
                    /\ ret'.reply.lastRefill = redis[key].last_refill]_vars

\* the state of an emptied bucket asked for half a second after its check:
\* still 0 tokens, still the timestamp of the check
StaleStateReturned ==
    /\ ret.call = "getBucketState" /\ ret.how = "done" /\ ~ret.reply.null
    /\ ret.reply.tokens = 0 /\ ret.reply.lastRefill < ret.now

\* C22: getStats reports exactly the live buckets: totalClients is the length
\* of the identifier list, and the list is exactly the set of identifiers
\* checked since they were last reset or evicted; after resetAll it is empty.
StatsReportCheckedIdentifiers ==
    [][/\ MemGetStats =>
              /\ ret'.reply.totalClients = Cardinality(ret'.reply.clients)
              /\ ret'.reply.clients = checked
              /\ (ret.call = "resetAll" /\ ret.how = "done") => ret'.reply.clients = {}
       /\ \A c \in Callers : (Keys(c) /\ arg[c].op = "getStats") =>
              /\ ret'.reply.totalClients = Cardinality(ret'.reply.clients)
              /\ ret'.reply.clients = checked
              /\ (ret.call = "resetAll" /\ ret.how = "done") => ret'.reply.clients = {}]_vars

\* C22 (amended): totalClients is the length of the identifier list, and the
\* list is exactly the set of identifiers that have a bucket: those with a
\* check the store has evaluated (not one that failed open) since they were
\* last reset or evicted.  After resetAll of the MemoryStore it is empty.
StatsReportLiveBuckets ==
    [][/\ MemGetStats =>
              /\ ret'.reply.totalClients = Cardinality(ret'.reply.clients)
              /\ ret'.reply.clients = {i \in IdsAdmin : has(i)}
              /\ ret'.reply.clients = checked
              /\ (ret.call = "resetAll" /\ ret.how = "done") => ret'.reply.clients = {}
       /\ \A c \in Callers : (Keys(c) /\ arg[c].op = "getStats") =>
              /\ ret'.reply.totalClients = Cardinality(ret'.reply.clients)
              /\ ret'.reply.clients = {i \in IdsAdmin : getKey(i) \in DOMAIN redis}
              /\ ret'.reply.clients = DOMAIN serial
              /\ ret'.reply.clients \subseteq checked]_vars

\* getStats has listed one of two identifiers checked: the other's check
\* failed open and left no bucket
StatsWithoutFailedCheck ==
    /\ ret.call = "getStats" /\ ret.how = "done"
    /\ ret.reply.totalClients = 1 /\ ret.reply.clients = {"b"}
    /\ checked = {"a", "b"}

\* C26: a sweep of the MemoryStore removes exactly the buckets whose last
\* refill is more than one hour (3 600 000 ms) in the past and leaves every
\* other bucket as it is; and a checkLimit, which is one synchronous call that
\* no sweep interleaves, leaves the bucket it has checked in the store.
SweepRemovesIdleBuckets ==
    [][/\ MemCleanup =>
              /\ DOMAIN buckets' = {i \in DOMAIN buckets :
                                        clock - buckets[i].lastRefill <= 3600000}
              /\ \A i \in DOMAIN buckets' : buckets'[i] = buckets[i]
       /\ \A i \in IdsAdmin : MemCheckLimit(i, 1, 0, 0) =>
              /\ has(i)' /\ buckets'[i].lastRefill = clock'
              /\ \A j \in DOMAIN buckets \ {i} : has(j)' /\ buckets'[j] = buckets[j]]_vars

\* a sweep has removed the bucket of "a", idle for more than an hour, and
\* kept the emptied bucket of "b", checked since
SweptOneOfTwo ==
    /\ store = "memory"
    /\ ~has("a") /\ credit["a"].swept
    /\ has("b") /\ buckets["b"].tokens = 0

\* what the store holds for an identifier: its bucket's tokens and last
\* refill, or nothing
Held(i) ==
    IF store = "memory"
    THEN IF i \in DOMAIN buckets
         THEN <<buckets[i].tokens, buckets[i].lastRefill>> ELSE <<>>
    ELSE IF getKey(i) \in DOMAIN redis
         THEN <<redis[getKey(i)].tokens, redis[getKey(i)].last_refill>> ELSE <<>>

\* C30: a checkLimit, a reset or a getBucketState for one identifier leaves
\* the tokens and the last-refill timestamp of every other identifier's
\* bucket unchanged (and creates or removes no other bucket), in both stores.
IdentifiersAreIsolated ==
    [][/\ \A i \in IdsAdmin : (MemCheckLimit(i, 1, 0, 0) \/ MemReset(i)) =>
              \A j \in IdsAdmin \ {i} : Held(j)' = Held(j)
       /\ \A c \in Callers : (Eval(c) \/ EvalFail(c) \/ Del(c) \/ HGetAll(c)) =>
              \A j \in IdsAdmin \ {arg[c].identifier} : Held(j)' = Held(j)]_vars

\* "b" has just been checked in the Shared Store, half a second after "a",
\* whose bucket still carries its own timestamp
CheckedBesideAnother ==
    /\ store = "redis"
    /\ ret.call = "checkLimit" /\ ret.how = "script" /\ ret.identifier = "b"
    /\ Held("a") # <<>> /\ Held("b") # <<>>
    /\ Held("a")[2] < Held("b")[2]

\* ===================================== key prefixes with glob characters
\* Here a key is the sequence of its characters.  Two stores on one Redis
\* instance, created with the prefixes "r:" and "r?", and an unrelated key
GlobPrefixes == {<<"r", ":">>, <<"r", "?">>}
GlobKeys == {<<"r", ":", "a">>, <<"r", "?", "a">>, <<"s", ":", "a">>}
GlobEntry == [tokens |-> 0, last_refill |-> 0, expireAt |-> ExpireSeconds * 1000]

\* Redis matches the argument of KEYS as a glob pattern: ? is any one
\* character, * any run of characters, another character itself (classes and
\* escapes are left out)
RECURSIVE stringmatch(_, _)
stringmatch(pattern, string) ==
    IF pattern = <<>> THEN string = <<>>
    ELSE IF Head(pattern) = "*"
    THEN \/ stringmatch(Tail(pattern), string)
         \/ string # <<>> /\ stringmatch(pattern, Tail(string))
    ELSE /\ string # <<>>
         /\ Head(pattern) = "?" \/ Head(pattern) = Head(string)
         /\ stringmatch(Tail(pattern), Tail(string))

\* client.keys(`${keyPrefix}*`)
KEYS(db, prefix) == {k \in DOMAIN db : stringmatch(prefix \o <<"*">>, k)}

\* k.replace(keyPrefix, ''): k without the first occurrence of the prefix,
\* or k itself when the prefix does not occur in it
replaceFirst(k, prefix) ==
    LET at == {i \in 1..(Len(k) - Len(prefix) + 1) :
                   SubSeq(k, i, i + Len(prefix) - 1) = prefix}
    IN IF at = {} THEN k
       ELSE LET i == CHOOSE x \in at : \A y \in at : x <= y
            IN SubSeq(k, 1, i - 1) \o SubSeq(k, i + Len(prefix), Len(k))

\* the key is under the prefix: it is the prefix followed by an identifier
StartsWith(k, prefix) ==
    Len(k) >= Len(prefix) /\ SubSeq(k, 1, Len(prefix)) = prefix

\* resetAll / getStats: client.keys(pattern) is executed by Redis
KeysPattern(c) ==
    /\ pc[c] = "keys"
    /\ LET ks == KEYS(redis, options.keyPrefix)
       IN IF arg[c].op = "getStats"
          THEN /\ ret' = [NoReturn EXCEPT !.call = "getStats", !.how = "done",
                              !.reply = [NoReply EXCEPT
                                  !.totalClients = Cardinality(ks),
                                  !.clients = {replaceFirst(k, options.keyPrefix) : k \in ks}]]
               /\ pc' = [pc EXCEPT ![c] = "idle"]
               /\ arg' = [arg EXCEPT ![c] = NoArg]
          ELSE IF ks = {}
          THEN /\ ret' = [NoReturn EXCEPT !.call = "resetAll", !.how = "done"]
               /\ pc' = [pc EXCEPT ![c] = "idle"]
               /\ arg' = [arg EXCEPT ![c] = NoArg]
          ELSE /\ pc' = [pc EXCEPT ![c] = "delkeys"]
               /\ arg' = [arg EXCEPT ![c] = [op |-> "resetAll", identifier |-> "",
                                             tokens |-> 0, now |-> 0, keys |-> ks]]
               /\ UNCHANGED ret
    /\ UNCHANGED <<checked, options, quits, mw, store, clock, nticks, njitter, rule, redis,
                   client, isConnected, burst, credit, serial, memVars>>

\* a connected store with one of the prefixes, on a Redis instance that holds
\* any of the keys
InitGlob ==
    /\ store = "redis"
    /\ clock = 0
    /\ nticks = 0 /\ njitter = 0
    /\ rule = RuleAdmin
    /\ buckets = <<>>
    /\ redis \in {[k \in ks |-> GlobEntry] : ks \in SUBSET GlobKeys}
    /\ client = [p \in Procs |-> "client"]
    /\ isConnected = [p \in Procs |-> TRUE]
    /\ pc = [c \in Callers |-> "idle"]
    /\ arg = [c \in Callers |-> NoArg]
    /\ ret = NoReturn
    /\ burst = <<>>
    /\ credit = <<>>
    /\ serial = <<>>
    /\ checked = {}
    /\ options \in {[keyPrefix |-> prefix] : prefix \in GlobPrefixes}
    /\ quits = [p \in Procs |-> 0]
    /\ mw = NoResponse

NextGlob ==
    \/ \E c \in Callers, op \in {"resetAll", "getStats"} : RedisBegin(c, op, "", 0)
    \/ \E c \in Callers : KeysPattern(c)
    \/ \E c \in Callers : DelKeys(c)

SpecGlob == InitGlob /\ [][NextGlob]_vars

\* C28: every operation of the Shared Store on an identifier reads and writes
\* only the key that is the store's prefix followed by the identifier, and
\* resetAll deletes exactly the keys under that prefix, leaving every other
\* entry of the shared Redis instance unchanged.
ResetAllDeletesKeysUnderPrefix ==
    [][/\ \A c \in Callers : (Eval(c) \/ EvalFail(c) \/ Del(c) \/ HGetAll(c)) =>
              \A k \in (DOMAIN redis \cup DOMAIN redis') \ {getKey(arg[c].identifier)} :
                  k \in DOMAIN redis /\ k \in DOMAIN redis' /\ redis'[k] = redis[k]
       /\ \A c \in Callers : DelKeys(c) =>
              /\ DOMAIN redis \ DOMAIN redis' =
                     {k \in DOMAIN redis : StartsWith(k, options.keyPrefix)}
              /\ \A k \in DOMAIN redis' : redis'[k] = redis[k]]_vars

\* ====================================================== the time to live
\* C27: every check-and-consume that Redis executes, admitted or rejected,
\* sets the key's time to live to the full window of 3600 s; so a key goes
\* only by a reset or when 3600 s have passed since the last check executed
\* for its identifier; and the first check after the key has gone is
\* evaluated as a first-ever one, against a full bucket stamped with the
\* check's timestamp.
TimeToLiveRefreshed ==
    [][/\ \A c \in Callers : Eval(c) =>
              LET key == getKey(arg[c].identifier)
              IN /\ redis'[key].expireAt = clock + 3600 * 1000
                 /\ key \notin DOMAIN redis =>
                        /\ ret'.seen = rule.capacity
                        /\ redis'[key].last_refill = arg[c].now
       /\ \A i \in Ids :
              (getKey(i) \in DOMAIN redis /\ getKey(i) \notin DOMAIN redis') =>
                  \/ \E c \in Callers : Del(c) /\ arg[c].identifier = i
                  \/ /\ i \in DOMAIN serial
                     /\ clock' - serial[i].lastRefill >= 3600 * 1000]_vars

\* a bucket of 1.5 tokens at 0.0001 per second, used, has expired, and the
\* next check has seen the full 1.5 tokens
FirstCheckAfterExpiry ==
    /\ ret.call = "checkLimit" /\ ret.how = "script"
    /\ rule.refillRate = 1 /\ ret.seen = rule.capacity
    /\ ret.now >= ExpireSeconds * 1000
    /\ credit[ret.identifier].swept

\* ============================================== one script run for each call
\* C29: a checkLimit of the RedisStore runs the check-and-consume script
\* once and neither reads nor writes the key otherwise: its steps before the
\* script leave the keyspace alone, the script's run writes the call's key
\* only and ends the call, and a run that fails ends the call as well, with
\* the fail-open result and nothing written, the script not being sent again.
ScriptRunsOnce ==
    [][\A c \in Callers :
          /\ (\/ \E i \in Ids, n \in TokensRequested : RedisBegin(c, "checkLimit", i, n)
              \/ arg[c].op = "checkLimit" /\ (ConnectOk(c) \/ ConnectFail(c))) =>
                 redis' = redis
          /\ Eval(c) =>
                 /\ pc'[c] = "idle" /\ ret'.how = "script"
                 /\ \A k \in DOMAIN redis \ {getKey(arg[c].identifier)} :
                        k \in DOMAIN redis' /\ redis'[k] = redis[k]
          /\ (pc[c] = "eval" /\ arg'[c] # arg[c] /\ ~Eval(c)) =>
                 /\ pc'[c] = "idle" /\ ret'.how = "failopen"
                 /\ redis' = redis]_vars

\* a call whose script failed has returned the fail-open result, with no
\* call left in flight and no key written
FailedRunNotRepeated ==
    /\ ret.call = "checkLimit" /\ ret.how = "failopen"
    /\ Idle /\ redis = <<>>
    /\ ret.identifier \in checked

\* ============================================== connect and disconnect
\* The demo server: one RedisStore, that of process Server, whose connect()
\* and disconnect() are called by start() and by every delivery of SIGINT;
\* the callers are the calls that may be in flight at once.
Server == 1
\* disconnect() calls that send QUIT on one client, a bound of the model
MaxQuits == 3

\* connect(): returns at once when isConnected, else creates a client and
\* awaits client.connect()
connect(c) ==
    /\ pc[c] = "idle"
    /\ IF isConnected[Server]
       THEN /\ ret' = [NoReturn EXCEPT !.call = "connect", !.how = "done"]
            /\ UNCHANGED <<client, quits, pc, arg>>
       ELSE /\ client' = [client EXCEPT ![Server] = "client"]
            /\ quits' = [quits EXCEPT ![Server] = 0]
            /\ pc' = [pc EXCEPT ![c] = "connect"]
            /\ arg' = [arg EXCEPT ![c] = [op |-> "connect"]]
            /\ UNCHANGED ret
    /\ UNCHANGED <<checked, options, mw, store, clock, nticks, njitter, rule, redis,
                   isConnected, burst, credit, serial, memVars>>

\* client.connect() resolves, the 'ready' handler having set isConnected
ConnectResolves(c) ==
    /\ pc[c] = "connect"
    /\ isConnected' = [isConnected EXCEPT ![Server] = TRUE]
    /\ pc' = [pc EXCEPT ![c] = "idle"]
    /\ arg' = [arg EXCEPT ![c] = NoArg]
    /\ ret' = [NoReturn EXCEPT !.call = "connect", !.how = "done"]
    /\ UNCHANGED <<checked, options, quits, mw, store, clock, nticks, njitter, rule, redis,
                   client, burst, credit, serial, memVars>>

\* client.connect() rejects: connect() logs the error and throws it again
ConnectRejects(c) ==
    /\ pc[c] = "connect"
    /\ pc' = [pc EXCEPT ![c] = "idle"]
    /\ arg' = [arg EXCEPT ![c] = NoArg]
    /\ ret' = [NoReturn EXCEPT !.call = "connect", !.how = "threw"]
    /\ UNCHANGED <<checked, options, quits, mw, store, clock, nticks, njitter, rule, redis,
                   client, isConnected, burst, credit, serial, memVars>>

\* disconnect(): with a client and isConnected it calls client.quit(), which
\* sends QUIT, and awaits it; otherwise it returns having done nothing
disconnect(c) ==
    /\ pc[c] = "idle"
    /\ IF client[Server] # "null" /\ isConnected[Server]
       THEN /\ quits[Server] < MaxQuits
            /\ quits' = [quits EXCEPT ![Server] = @ + 1]
            /\ pc' = [pc EXCEPT ![c] = "quit"]
            /\ arg' = [arg EXCEPT ![c] = [op |-> "disconnect"]]
            /\ UNCHANGED ret
       ELSE /\ ret' = [NoReturn EXCEPT !.call = "disconnect", !.how = "done"]
            /\ UNCHANGED <<quits, pc, arg>>
    /\ UNCHANGED <<checked, options, mw, store, clock, nticks, njitter, rule, redis,
                   client, isConnected, burst, credit, serial, memVars>>

\* client.quit() resolves: isConnected is cleared and disconnect() returns
QuitResolves(c) ==
    /\ pc[c] = "quit"
    /\ isConnected' = [isConnected EXCEPT ![Server] = FALSE]
    /\ pc' = [pc EXCEPT ![c] = "idle"]
    /\ arg' = [arg EXCEPT ![c] = NoArg]
    /\ ret' = [NoReturn EXCEPT !.call = "disconnect", !.how = "done"]
    /\ UNCHANGED <<checked, options, quits, mw, store, clock, nticks, njitter, rule, redis,
                   client, burst, credit, serial, memVars>>

\* client.quit() rejects: disconnect(), which has no catch, rejects with the
\* error and isConnected stays set
QuitRejects(c) ==
    /\ pc[c] = "quit"
    /\ pc' = [pc EXCEPT ![c] = "idle"]
    /\ arg' = [arg EXCEPT ![c] = NoArg]
    /\ ret' = [NoReturn EXCEPT !.call = "disconnect", !.how = "threw"]
    /\ UNCHANGED <<checked, options, quits, mw, store, clock, nticks, njitter, rule, redis,
                   client, isConnected, burst, credit, serial, memVars>>

InitConnection ==
    /\ Init
    /\ store = "redis"

NextConnection ==
    \/ \E c \in Callers : connect(c)
    \/ \E c \in Callers : ConnectResolves(c)
    \/ \E c \in Callers : ConnectRejects(c)
    \/ \E c \in Callers : disconnect(c)
    \/ \E c \in Callers : QuitResolves(c)
    \/ \E c \in Callers : QuitRejects(c)

SpecConnection == InitConnection /\ [][NextConnection]_vars

\* C23: disconnect is idempotent: called on a store that is not connected,
\* a store whose disconnect has completed included, it sends nothing and
\* returns without an error, and no client is sent QUIT more than once on the
\* connection it established.
DisconnectIsIdempotent ==
    [][/\ \A c \in Callers :
             (disconnect(c) /\ ~(client[Server] # "null" /\ isConnected[Server])) =>
                 /\ quits' = quits /\ pc' = pc
                 /\ ret'.call = "disconnect" /\ ret'.how = "done"
       /\ quits'[Server] <= 1]_vars

\* ======================= one identifier checked under a different config
\* two limiters with different capacities that are given the same
\* MemoryStore: an identifier which has a bucket already is checked with the
\* capacity and refill rate of the other limiter
RulesReconfig == {RuleB, RuleAdmin}
\* the clock between two calls: half a second or a second
ReconfigSteps == {500, 1000}

InitReconfig ==
    /\ store = "memory"
    /\ clock = 0
    /\ nticks = 0 /\ njitter = 0
    /\ rule \in RulesReconfig
    /\ buckets = <<>>
    /\ redis = <<>>
    /\ client = [p \in Procs |-> "null"]
    /\ isConnected = [p \in Procs |-> FALSE]
    /\ pc = [c \in Callers |-> "idle"]
    /\ arg = [c \in Callers |-> NoArg]
    /\ ret = NoReturn
    /\ burst = [i \in Ids |-> NoBurst]
    /\ credit = [i \in Ids |-> FirstCredit]
    /\ serial = <<>>
    /\ checked = {}
    /\ options = [keyPrefix |-> keyPrefix]
    /\ quits = [p \in Procs |-> 0]
    /\ mw = NoResponse

\* the next request is handled by the other limiter, which passes its own
\* {capacity, refillRate} to checkLimit
Reconfigure(r) ==
    /\ r # rule
    /\ rule' = r
    /\ UNCHANGED <<checked, options, quits, mw, store, clock, nticks, njitter, buckets, redis,
                   client, isConnected, pc, arg, ret, burst, credit, serial>>

NextReconfig ==
    \/ \E i \in Ids, n \in TokensRequested : MemCheckLimit(i, n, 0, 0)
    \/ \E i \in Ids : MemReset(i)
    \/ \E d \in ReconfigSteps : MemTick(d)
    \/ \E r \in RulesReconfig : Reconfigure(r)

SpecReconfig == InitReconfig /\ [][NextReconfig]_vars

\* C31: every checkLimit is evaluated with the capacity and refill rate
\* passed in the call: the bucket the call leaves has them as its capacity
\* and rate, the limit reported is that capacity, and the remaining tokens
\* reported do not exceed it, also when the identifier had a bucket created
\* with another config.
CheckUsesThePassedConfig ==
    (ret.call = "checkLimit" /\ ret.how = "memory") =>
        /\ ret.remaining <= ret.limit
        /\ has(ret.identifier) =>
               /\ buckets[ret.identifier].capacity = ret.limit
               /\ buckets[ret.identifier].tokens <= ret.limit

\* =================================================== JavaScript numbers
\* The token count, the refill rate and the time passed are JavaScript
\* numbers: IEEE 754 binary64, every operation rounded to the nearest value
\* of 53 significant bits, ties to even.  A number here is zero or m * 2^e
\* with 2^52 <= m < 2^53; m is a sequence of limbs of LimbBits bits, the
\* least significant first, since it is wider than TLC's integers.  Only
\* finite numbers >= 0 occur.
MantissaBits == 53
LimbBits == 14
Base == 2^LimbBits

Limb(x, i) == IF i >= 1 /\ i <= Len(x) THEN x[i] ELSE 0

RECURSIVE Strip(_)
Strip(x) ==
    IF x = <<>> THEN <<>>
    ELSE IF x[Len(x)] = 0 THEN Strip(SubSeq(x, 1, Len(x) - 1))
    ELSE x

RECURSIVE Limbs(_)
Limbs(n) == IF n = 0 THEN <<>> ELSE <<n % Base>> \o Limbs(n \div Base)

RECURSIVE Small(_)
Small(x) == IF x = <<>> THEN 0 ELSE x[1] + Base * Small(Tail(x))

RECURSIVE Width(_)
Width(v) == IF v = 0 THEN 0 ELSE 1 + Width(v \div 2)

BitLen(x) == IF x = <<>> THEN 0 ELSE LimbBits * (Len(x) - 1) + Width(x[Len(x)])

TestBit(x, k) == (Limb(x, k \div LimbBits + 1) \div 2^(k % LimbBits)) % 2

\* x mod 2^n is not zero
LowBits(x, n) ==
    \E i \in 1..Len(x) :
        \/ i <= n \div LimbBits /\ x[i] # 0
        \/ i = n \div LimbBits + 1 /\ x[i] % 2^(n % LimbBits) # 0

RECURSIVE AddFrom(_, _, _, _)
AddFrom(x, y, i, carry) ==
    IF i > Len(x) /\ i > Len(y)
    THEN IF carry = 0 THEN <<>> ELSE <<carry>>
    ELSE LET s == Limb(x, i) + Limb(y, i) + carry
         IN <<s % Base>> \o AddFrom(x, y, i + 1, s \div Base)

BigAdd(x, y) == AddFrom(x, y, 1, 0)

RECURSIVE SubFrom(_, _, _, _)
SubFrom(x, y, i, borrow) ==
    IF i > Len(x) THEN <<>>
    ELSE LET s == Limb(x, i) - Limb(y, i) - borrow
         IN IF s < 0 THEN <<s + Base>> \o SubFrom(x, y, i + 1, 1)
            ELSE <<s>> \o SubFrom(x, y, i + 1, 0)

\* x - y for x >= y
BigSub(x, y) == Strip(SubFrom(x, y, 1, 0))

RECURSIVE CmpFrom(_, _, _)
CmpFrom(x, y, i) ==
    IF i = 0 THEN 0
    ELSE IF x[i] > y[i] THEN 1
    ELSE IF x[i] < y[i] THEN -1
    ELSE CmpFrom(x, y, i - 1)

BigCmp(x, y) ==
    IF Len(x) > Len(y) THEN 1
    ELSE IF Len(x) < Len(y) THEN -1
    ELSE CmpFrom(x, y, Len(x))

\* the products of limbs that meet in column k; x and y are significands,
\* of four limbs at most
Column(x, y, k) ==
    Limb(x, 1) * Limb(y, k) + Limb(x, 2) * Limb(y, k - 1)
        + Limb(x, 3) * Limb(y, k - 2) + Limb(x, 4) * Limb(y, k - 3)

RECURSIVE MulFrom(_, _, _, _)
MulFrom(x, y, k, carry) ==
    IF k > Len(x) + Len(y) THEN <<>>
    ELSE LET s == Column(x, y, k) + carry
         IN <<s % Base>> \o MulFrom(x, y, k + 1, s \div Base)

BigMul(x, y) == Strip(MulFrom(x, y, 1, 0))

\* x * 2^n
BigShl(x, n) ==
    LET ls == n \div LimbBits
        bs == n % LimbBits
    IN Strip([i \in 1..(Len(x) + ls + 1) |->
                 (Limb(x, i - ls) % 2^(LimbBits - bs)) * 2^bs
                     + Limb(x, i - ls - 1) \div 2^(LimbBits - bs)])

\* floor(x / 2^n)
BigShr(x, n) ==
    LET ls == n \div LimbBits
        bs == n % LimbBits
    IN Strip([i \in 1..Len(x) |->
                 Limb(x, i + ls) \div 2^bs
                     + (Limb(x, i + ls + 1) % 2^bs) * 2^(LimbBits - bs)])

\* floor(x / d) and the remainder, d a small integer: long division from
\* the most significant limb
RECURSIVE DivFrom(_, _, _, _)
DivFrom(x, d, i, rem) ==
    IF i = 0 THEN [q |-> <<>>, rem |-> rem]
    ELSE LET n == rem * Base + x[i]
             rest == DivFrom(x, d, i - 1, n % d)
         IN [q |-> rest.q \o <<n \div d>>, rem |-> rest.rem]

BigDivSmall(x, d) ==
    LET r == DivFrom(x, d, Len(x), 0) IN [q |-> Strip(r.q), rem |-> r.rem]

Zero == [m |-> <<>>, e |-> 0]

\* the number nearest to x * 2^e (to a value just above it when sticky),
\* ties to even
Round(x, e, sticky) ==
    LET len == BitLen(x)
        d == len - MantissaBits
    IN IF x = <<>> THEN Zero
       ELSE IF d <= 0 THEN [m |-> BigShl(x, -d), e |-> e + d]
       ELSE LET q == BigShr(x, d)
                half == TestBit(x, d - 1) = 1
                more == sticky \/ LowBits(x, d - 1)
                up == half /\ (more \/ TestBit(q, 0) = 1)
                r == IF up THEN BigAdd(q, <<1>>) ELSE q
            IN IF BitLen(r) > MantissaBits
               THEN [m |-> BigShr(r, 1), e |-> e + d + 1]
               ELSE [m |-> r, e |-> e + d]

\* an integer as a number
Number(n) == Round(Limbs(n), 0, FALSE)

\* a / b of two integers, a >= 0, b > 0
Quotient(a, b) ==
    LET bits == 5 * LimbBits     \* fraction bits computed before rounding
        r == BigDivSmall(BigShl(Limbs(a), bits), b)
    IN Round(r.q, -bits, r.rem # 0)

\* a * b
Product(a, b) ==
    IF a.m = <<>> \/ b.m = <<>> THEN Zero
    ELSE Round(BigMul(a.m, b.m), a.e + b.e, FALSE)

\* a + b
Sum(a, b) ==
    LET e == Min(a.e, b.e)
    IN IF a.m = <<>> THEN b
       ELSE IF b.m = <<>> THEN a
       ELSE Round(BigAdd(BigShl(a.m, a.e - e), BigShl(b.m, b.e - e)), e, FALSE)

\* a < b, a = b, a > b: -1, 0, 1
Compare(a, b) ==
    IF a.m = <<>> THEN (IF b.m = <<>> THEN 0 ELSE -1)
    ELSE IF b.m = <<>> THEN 1
    ELSE IF a.e > b.e THEN 1
    ELSE IF a.e < b.e THEN -1
    ELSE BigCmp(a.m, b.m)

\* a - b for a >= b
Difference(a, b) ==
    LET e == Min(a.e, b.e)
    IN IF b.m = <<>> THEN a
       ELSE Round(BigSub(BigShl(a.m, a.e - e), BigShl(b.m, b.e - e)), e, FALSE)

\* Math.min(a, b)
MathMin(a, b) == IF Compare(a, b) <= 0 THEN a ELSE b

\* Math.floor(a), for a below 2^30
MathFloor(a) ==
    IF a.m = <<>> \/ -a.e >= MantissaBits THEN 0
    ELSE IF a.e >= 0 THEN Small(BigShl(a.m, a.e))
    ELSE Small(BigShr(a.m, -a.e))

\* ------------------------------------ tokenBucket.js on JavaScript numbers
\* new TokenBucket(capacity, refillRate), the rate being what the middleware
\* passes: requestsPerMinute / 60
TokenBucketNumber(capacity, requestsPerMinute, now) ==
    [capacity |-> Number(capacity), refillRate |-> Quotient(requestsPerMinute, 60),
     tokens |-> Number(capacity), lastRefill |-> now]

refillNumber(b, now) ==
    LET timePassed == Quotient(now - b.lastRefill, 1000)
        tokensToAdd == Product(timePassed, b.refillRate)
    IN [b EXCEPT !.tokens = MathMin(b.capacity, Sum(b.tokens, tokensToAdd)),
                 !.lastRefill = now]

consumeNumber(b, tokens, now) ==
    LET r == refillNumber(b, now)
    IN IF Compare(r.tokens, Number(tokens)) >= 0
       THEN [ok |-> TRUE, bucket |-> [r EXCEPT !.tokens = Difference(@, Number(tokens))]]
       ELSE [ok |-> FALSE, bucket |-> r]

\* Two buckets created at the same instant with the same capacity and rate
\* are sent the same consume() calls at the same instants; the state of the
\* observed one is also read in between, by getState() or by a further
\* consume() that is rejected.
\* the limiter's rule: one token, ten requests per minute
NumberCapacity == 1
NumberRequestsPerMinute == 10
\* the clock between two calls, in ms
NumberSteps == {150, 5850, 6000}
\* times the clock is advanced, a bound of the model
MaxNumberTicks == 2

InitNumbers ==
    /\ store = "memory"
    /\ clock = 0
    /\ nticks = 0 /\ njitter = 0
    /\ rule = [capacity |-> Tokens(NumberCapacity),
               refillRate |-> PerSecond(NumberRequestsPerMinute) \div 60]
    /\ buckets = [i \in {"observed", "unobserved"} |->
                     TokenBucketNumber(NumberCapacity, NumberRequestsPerMinute, 0)]
    /\ redis = <<>>
    /\ client = [p \in Procs |-> "null"]
    /\ isConnected = [p \in Procs |-> FALSE]
    /\ pc = [c \in Callers |-> "idle"]
    /\ arg = [c \in Callers |-> NoArg]
    /\ ret = NoReturn
    /\ burst = [i \in Ids |-> NoBurst]
    /\ credit = [i \in Ids |-> FirstCredit]
    /\ serial = <<>>
    /\ checked = {}
    /\ options = [keyPrefix |-> keyPrefix]
    /\ quits = [p \in Procs |-> 0]
    /\ mw = NoResponse

\* consume(1) on both buckets
NumberConsume ==
    /\ LET o == consumeNumber(buckets["observed"], 1, clock)
           u == consumeNumber(buckets["unobserved"], 1, clock)
       IN /\ buckets' = [buckets EXCEPT !["observed"] = o.bucket, !["unobserved"] = u.bucket]
          /\ ret' = [call |-> "consume", how |-> "memory", now |-> clock,
                     observed |-> o.ok, unobserved |-> u.ok]
    /\ UNCHANGED <<checked, options, quits, mw, store, clock, nticks, njitter, rule, burst,
                   credit, redisVars>>

\* getState() on the observed bucket: it refills, and returns the floor of
\* the token count (its timeUntilRefill is not computed here)
NumberGetState ==
    /\ LET r == refillNumber(buckets["observed"], clock)
       IN /\ buckets' = [buckets EXCEPT !["observed"] = r]
          /\ ret' = [call |-> "getState", how |-> "memory", now |-> clock,
                     tokens |-> MathFloor(r.tokens)]
    /\ UNCHANGED <<checked, options, quits, mw, store, clock, nticks, njitter, rule, burst,
                   credit, redisVars>>

\* a further consume(1) on the observed bucket which is rejected
NumberRejected ==
    /\ LET o == consumeNumber(buckets["observed"], 1, clock)
       IN /\ ~o.ok
          /\ buckets' = [buckets EXCEPT !["observed"] = o.bucket]
          /\ ret' = [call |-> "rejected", how |-> "memory", now |-> clock]
    /\ UNCHANGED <<checked, options, quits, mw, store, clock, nticks, njitter, rule, burst,
                   credit, redisVars>>

NumberTick(d) ==
    /\ nticks < MaxNumberTicks
    /\ clock' = clock + d
    /\ nticks' = nticks + 1
    /\ UNCHANGED <<checked, options, quits, mw, store, njitter, rule, buckets, ret,
                   burst, credit, redisVars>>

NextNumbers ==
    \/ NumberConsume
    \/ NumberGetState
    \/ NumberRejected
    \/ \E d \in NumberSteps : NumberTick(d)

SpecNumbers == InitNumbers /\ [][NextNumbers]_vars

\* C32: observing a bucket does not change later decisions: once both
\* buckets have been refilled at the same instant they hold the same token
\* count, whatever refills the observed one went through before, and every
\* consume() is decided the same way on both.
ObservationChangesNoDecision ==
    /\ buckets["observed"].lastRefill = buckets["unobserved"].lastRefill =>
           buckets["observed"].tokens = buckets["unobserved"].tokens
    /\ ret.call = "consume" => ret.observed = ret.unobserved

\* ================================================ one client for each store
\* C33: a RedisStore has one client at most that is created and live: a
\* connect() on a connected store changes nothing, and a connect() creates a
\* client only when no other call's connection attempt, with the client it
\* created, is in flight; a call that needs the connection meanwhile shares
\* that attempt.  (checkLimit, reset, getStats and the others reach the
\* connection through this connect().)
OneClientForEachStore ==
    [][\A c \in Callers :
          connect(c) =>
              /\ isConnected[Server] =>
                     client' = client /\ pc' = pc /\ isConnected' = isConnected
              /\ pc'[c] = "connect" =>
                     \A other \in Callers \ {c} : pc[other] # "connect"]_vars

\* ================================== requests the middleware does not check
\* config.identifier(req) gave no identifier: undefined, null or ''
NoClientId == ""

\* a middleware that would check before it looks at skip
MiddlewareHandleAll(c, skip, clientId) ==
    IF clientId = NoClientId
    THEN /\ mw' = [mw EXCEPT !.did = "next"]
         /\ UNCHANGED <<checked, options, quits, store, clock, nticks, njitter, rule, ret,
                        burst, credit, redisVars, memVars>>
    ELSE IF store = "memory" THEN MiddlewareMemory(clientId)
    ELSE MiddlewareRedis(c, clientId)

\* rateLimiterMiddleware(req, res, next) from its start: next() at once when
\* config.skip(req) is true and when the request has no client identifier;
\* otherwise the check of the configured store and what follows it
MiddlewareHandle(c, skip, clientId) ==
    IF skip \/ clientId = NoClientId
    THEN /\ mw' = [mw EXCEPT !.did = "next"]
         /\ UNCHANGED <<checked, options, quits, store, clock, nticks, njitter, rule, ret,
                        burst, credit, redisVars, memVars>>
    ELSE IF store = "memory" THEN MiddlewareMemory(clientId)
    ELSE MiddlewareRedis(c, clientId)

NextSkip ==
    \/ \E c \in Callers, skip \in BOOLEAN, clientId \in Ids \cup {NoClientId} :
          MiddlewareHandle(c, skip, clientId)
    \/ \E d \in ShortSteps : MemTick(d)
    \/ \E c \in Callers : ConnectOk(c)
    \/ \E c \in Callers : ConnectFail(c)
    \/ \E c \in Callers : Eval(c)
    \/ \E c \in Callers : EvalFail(c)
    \/ \E d \in ShortSteps : RedisTick(d)

SpecSkip == InitMiddleware /\ [][NextSkip]_vars

\* C34: a request that skip accepts, or for which no client identifier is
\* resolved, is passed to the next handler and no check-and-consume call is
\* made for it: no bucket of either store changes, no call is begun and none
\* returns.
SkippedRequestChecksNothing ==
    [][\A c \in Callers, skip \in BOOLEAN, clientId \in Ids \cup {NoClientId} :
          (MiddlewareHandle(c, skip, clientId) /\ (skip \/ clientId = NoClientId)) =>
              /\ mw'.did = "next"
              /\ buckets' = buckets /\ redis' = redis
              /\ pc' = pc /\ arg' = arg /\ ret' = ret
              /\ checked' = checked /\ client' = client]_vars

\* the last request was passed on although the last check the MemoryStore
\* made, whose bucket is still there, was a rejection: that request was not
\* checked
PassedOnUnchecked ==
    /\ store = "memory"
    /\ mw.did = "next"
    /\ ret.call = "checkLimit" /\ ~ret.allowed
    /\ has(ret.identifier)
====
